---------------------------- MODULE Spec2Model ----------------------------
(***************************************************************************)
(* Model of the hybrid retrieval layer of rag-milvus-enterprise:           *)
(*   - libs/retriever/rrf.py            (Reciprocal Rank Fusion)           *)
(*   - libs/caching/query_cache.py      (QueryCache: make_key, get, set)   *)
(*   - services/api_gateway/main.py     (query_endpoint)                   *)
(*   - libs/db/milvus_client.py, services/retriever/*.py (backends)        *)
(*                                                                         *)
(* Conventions.  A Python str is a sequence of one-character strings, so   *)
(* that formatting and concatenation are computed and not assumed.  None   *)
(* is NoneStr for an optional str, NoChunk for an optional chunk_id and a  *)
(* score record of kind "none" for an optional score.  rrf_score is kept   *)
(* exactly: the rational value multiplied by ScoreScale.                   *)
(***************************************************************************)
EXTENDS Integers, Sequences, FiniteSets, TLC

VARIABLES
    \* ---- rrf_fuse (libs/retriever/rrf.py)
    vector_results,   \* argument vector_results
    bm25_results,     \* argument bm25_results
    fused,            \* the local dict `fused`, in insertion order
    fused_list,       \* the returned list
    rrf_pc,           \* position inside rrf_fuse
    \* ---- QueryCache.make_key called twice (tests/test_query_cache.py)
    key_args,         \* <<args of call 1, args of call 2>>
    key_out,          \* <<key of call 1, key of call 2>>
    key_pc,           \* number of calls made
    \* ---- QueryCache instance (libs/caching/query_cache.py)
    use_redis,        \* self._use_redis (and self._redis_client is not None)
    redis_up,         \* environment: the Redis server answers
    redis_data,       \* environment: Redis key -> [val, exp] (setex)
    store,            \* self._store
    expire,           \* self._expire
    now,              \* time.time(), in seconds
    last_set,         \* history: key -> the last set() on it
    last_get,         \* history: the get() that has just returned, if any
    \* ---- /query (services/api_gateway/main.py)
    req,              \* the request being answered
    resp,             \* the response returned for it
    calls,            \* history of the request: which collaborators ran
    cache_before,     \* history: cache contents when the request arrived
    written,          \* history: payloads the gateway handed to query_cache.set
    \* ---- threads calling get/set of one QueryCache in fallback mode
    locked,           \* self._lock is held
    thr,              \* thread -> the call it is in and its position there
    \* ---- HybridRetriever.search called page after page (hybrid_retriever.py)
    hy_args,          \* the arguments and what the retrievers and the reranker do
    hy_res,           \* what the last call returned
    hy_resp,          \* the /query response the gateway builds from it
    hy_pages,         \* history: final_results of the calls for page 1, 2, ...
    hy_calls,         \* history: the candidate lists handed to self.reranker.rerank
    \* ---- Reranker.rerank and Reranker._normalize (services/retriever/rerank.py)
    rk_cands,         \* argument candidates, each with the cosine its text gets
    rk_out,           \* the returned list
    rk_embeds,        \* history: the texts passed to self.model.embed_one
    nz_in,            \* argument scores of _normalize
    nz_out,           \* what _normalize returned
    \* ---- TextChunker.chunk (libs/chunking/text_chunker.py)
    ch_self,          \* the chunker: strategy, size, overlap
    ch_text,          \* argument text
    ch_sentences,     \* local sentences of _chunk_by_sentence
    ch_chunks,        \* local chunks
    ch_cid,           \* local cid
    ch_pos,           \* local pos of _chunk_by_char, local i of _chunk_by_sentence
    ch_pc,            \* "new", "call", "char", "sentence", "returned"
    \* ---- BM25Retriever (services/retriever/bm25_retriever.py)
    bm_store,         \* the document store: whether it answers, and its rows
    bm_initialized,   \* self._initialized
    bm_corpus,        \* self.corpus
    bm_bm25,          \* self.bm25: None or the scorer built from the tokenized corpus
    bm_loads,         \* history: how often fetch_all_documents was called
    bm_first,         \* history: how the first search's load ended
    bm_searches,      \* history: how many search() calls were made
    bm_last,          \* history: what the last search() did
    \* ---- POST /ingest (services/api_gateway/main.py, services/embedding_worker/worker.py)
    ing_rows,         \* the rows of rag_collection: doc_id, chunk_id, text
    ing_hist          \* history: one record per /ingest call

rrfVars   == <<vector_results, bm25_results, fused, fused_list, rrf_pc>>
keyVars   == <<key_args, key_out, key_pc>>
cacheVars == <<use_redis, redis_up, redis_data, store, expire, now,
               last_set, last_get>>
gwVars    == <<req, resp, calls, cache_before, written>>
lockVars  == <<locked, thr>>
hyVars    == <<hy_args, hy_res, hy_resp, hy_pages, hy_calls>>
rkVars    == <<rk_cands, rk_out, rk_embeds, nz_in, nz_out>>
chVars    == <<ch_self, ch_text, ch_sentences, ch_chunks, ch_cid, ch_pos, ch_pc>>
bmVars    == <<bm_store, bm_initialized, bm_corpus, bm_bm25, bm_loads, bm_first, bm_searches, bm_last>>
ingVars   == <<ing_rows, ing_hist>>
vars      == <<rrfVars, keyVars, cacheVars, gwVars, lockVars, hyVars, rkVars, chVars, bmVars, ingVars>>

-----------------------------------------------------------------------------
(* Bounds of the model *)

\* longest hit list passed to rrf_fuse
MaxHits == 2

-----------------------------------------------------------------------------
(* Python values *)

\* None where a str is expected: a token that is no character sequence
NoneStr == <<"None">>

\* None where a chunk_id is expected; chunk ids are indexes >= 0
NoChunk == 0 - 1

\* raw score of a hit: absent/None, a number, or a value float() rejects
NoScore == [kind |-> "none", val |-> 0]

NumScore(n) == [kind |-> "num", val |-> n]

BadScore == [kind |-> "str", val |-> 0]

\* Python truthiness of an optional str
Truthy(s) == s # NoneStr /\ s # <<>>

\* a or b on optional str
Or(a, b) == IF Truthy(a) THEN a ELSE b

Digit(d) == <<"0", "1", "2", "3", "4", "5", "6", "7", "8", "9">>[d + 1]

RECURSIVE IntToStr(_)
\* str(n) / f"{n}" for n >= 0
IntToStr(n) == IF n < 10 THEN <<Digit(n)>>
               ELSE IntToStr(n \div 10) \o <<Digit(n % 10)>>

\* f"{b}" for a bool
BoolToStr(b) == IF b THEN <<"T", "r", "u", "e">> ELSE <<"F", "a", "l", "s", "e">>

\* the characters of a source name
SourceChars(source) == IF source = "vector"
                       THEN <<"v", "e", "c", "t", "o", "r">>
                       ELSE <<"b", "m", "2", "5">>

RECURSIVE SetSum(_, _)
\* sum of f[x] over x in S
SetSum(f, S) == IF S = {} THEN 0
                ELSE LET x == CHOOSE y \in S : TRUE
                     IN  f[x] + SetSum(f, S \ {x})

\* all sequences over S of length <= n
SeqsUpTo(S, n) == UNION {[1..m -> S] : m \in 0..n}

-----------------------------------------------------------------------------
(* libs/retriever/rrf.py *)

\* the default k of rrf_fuse, also HybridRetriever.rrf_k
RrfK == 60

RECURSIVE ProdRange(_, _)
ProdRange(lo, hi) == IF lo > hi THEN 1 ELSE lo * ProdRange(lo + 1, hi)

\* common denominator of every 1/(k + rank) that can occur
ScoreScale == ProdRange(RrfK + 1, RrfK + MaxHits)

\* contribution = 1.0 / (k + rank), times ScoreScale
Contribution(rank) == ScoreScale \div (RrfK + rank)

\* mutant: no fallback key, a missing chunk_id is formatted like any other
BuildKeyNoFallback(hit, source, idx) ==
    Or(hit.doc_id, <<>>) \o <<":", ":">>
        \o (IF hit.chunk_id = NoChunk THEN NoneStr ELSE IntToStr(hit.chunk_id))

\* mutant: the fallback key forgets the rank
BuildKeySourceOnly(hit, source, idx) ==
    IF hit.chunk_id # NoChunk
    THEN Or(hit.doc_id, <<>>) \o <<":", ":">> \o IntToStr(hit.chunk_id)
    ELSE SourceChars(source) \o <<":">>

BuildKey(hit, source, idx) ==
    IF hit.chunk_id # NoChunk
    THEN Or(hit.doc_id, <<>>) \o <<":", ":">> \o IntToStr(hit.chunk_id)
    ELSE SourceChars(source) \o <<":">> \o IntToStr(idx)

ExtractTextFromVectorHit(hit) ==
    IF Truthy(hit.text) THEN hit.text
    ELSE Or(hit.meta_text, hit.meta_content)

\* mutant: a score that is missing or not numeric counts as 0.0
CoerceScoreZero(raw) == IF raw.kind = "num" THEN raw ELSE NumScore(0)

\* float(raw_score) guarded by try/except: None unless numeric
CoerceScore(raw) == IF raw.kind = "num" THEN raw ELSE NoScore

\* position of key in the dict f, 0 when absent
KeyIndex(f, key) ==
    IF \E i \in 1..Len(f) : f[i].key = key
    THEN CHOOSE i \in 1..Len(f) : f[i].key = key
    ELSE 0

\* a fresh fused[key]
NewEntry(key, hit, is_vector) ==
    [key          |-> key,
     doc_id       |-> hit.doc_id,
     chunk_id     |-> hit.chunk_id,
     text         |-> IF is_vector THEN ExtractTextFromVectorHit(hit) ELSE hit.text,
     score_vector |-> NoScore,
     score_bm25   |-> NoScore,
     rrf_score    |-> 0,
     sources      |-> <<>>]

\* mutant: a later hit with a text fills in doc_id and text
UpdateEntryFillsText(entry, hit, source, is_vector, rank) ==
    LET raw == CoerceScore(hit.score)
    IN  [entry EXCEPT
            !.doc_id       = IF Truthy(hit.text) THEN hit.doc_id ELSE @,
            !.text         = IF Truthy(hit.text) THEN hit.text ELSE @,
            !.sources      = IF \E i \in 1..Len(@) : @[i] = source
                             THEN @ ELSE Append(@, source),
            !.score_vector = IF is_vector /\ raw.kind # "none" THEN raw ELSE @,
            !.score_bm25   = IF ~is_vector /\ raw.kind # "none" THEN raw ELSE @,
            !.rrf_score    = @ + Contribution(rank)]

\* the part of the loop body that updates entry = fused[key]
UpdateEntry(entry, hit, source, is_vector, rank) ==
    LET raw == CoerceScore(hit.score)
    IN  [entry EXCEPT
            !.sources      = IF \E i \in 1..Len(@) : @[i] = source
                             THEN @ ELSE Append(@, source),
            !.score_vector = IF is_vector /\ raw.kind # "none" THEN raw ELSE @,
            !.score_bm25   = IF ~is_vector /\ raw.kind # "none" THEN raw ELSE @,
            !.rrf_score    = @ + Contribution(rank)]

\* mutant: the contribution replaces the score instead of adding to it
AddHitOverwrite(f, hit, source, is_vector, rank) ==
    LET key  == BuildKey(hit, source, rank)
        f1   == IF KeyIndex(f, key) = 0
                THEN Append(f, NewEntry(key, hit, is_vector)) ELSE f
        i    == KeyIndex(f1, key)
        e    == UpdateEntry(f1[i], hit, source, is_vector, rank)
    IN  [f1 EXCEPT ![i] = [e EXCEPT !.rrf_score = Contribution(rank)]]

\* one iteration of the loop of add_results
AddHit(f, hit, source, is_vector, rank) ==
    LET key  == BuildKey(hit, source, rank)
        f1   == IF KeyIndex(f, key) = 0
                THEN Append(f, NewEntry(key, hit, is_vector)) ELSE f
        i    == KeyIndex(f1, key)
    IN  [f1 EXCEPT ![i] = UpdateEntry(f1[i], hit, source, is_vector, rank)]

RECURSIVE AddFrom(_, _, _, _, _)
AddFrom(f, results, source, is_vector, rank) ==
    IF rank > Len(results) THEN f
    ELSE AddFrom(AddHit(f, results[rank], source, is_vector, rank),
                 results, source, is_vector, rank + 1)

\* add_results(results, source, is_vector): enumerate(results, start=1)
AddResults(f, results, source, is_vector) ==
    AddFrom(f, results, source, is_vector, 1)

\* x put behind every element of the sorted list s that does not rank below it
InsertDesc(s, x) ==
    LET n == Cardinality({i \in 1..Len(s) : s[i].rrf_score >= x.rrf_score})
    IN  SubSeq(s, 1, n) \o <<x>> \o SubSeq(s, n + 1, Len(s))

\* x put in front of every element that does not rank above it
InsertDescFront(s, x) ==
    LET n == Cardinality({i \in 1..Len(s) : s[i].rrf_score > x.rrf_score})
    IN  SubSeq(s, 1, n) \o <<x>> \o SubSeq(s, n + 1, Len(s))

RECURSIVE SortFrom(_, _, _)
SortFrom(acc, s, i) ==
    IF i > Len(s) THEN acc ELSE SortFrom(InsertDesc(acc, s[i]), s, i + 1)

RECURSIVE SortFromFront(_, _, _)
SortFromFront(acc, s, i) ==
    IF i > Len(s) THEN acc ELSE SortFromFront(InsertDescFront(acc, s[i]), s, i + 1)

\* mutant: the list is returned in insertion order
SortNone(s) == s

\* mutant: descending, but equal scores come out in reverse (sorted()[::-1])
SortByRrfDescReversedTies(s) == SortFromFront(<<>>, s, 1)

\* list.sort(key=lambda x: x["rrf_score"], reverse=True): stable
SortByRrfDesc(s) == SortFrom(<<>>, s, 1)

\* rrf_fuse as a function of its arguments
RrfFuse(vec, bm) ==
    SortByRrfDesc(AddResults(AddResults(<<>>, vec, "vector", TRUE),
                             bm, "bm25", FALSE))

\* hits as the retrievers deliver them to the fuser: identified or not
DocIds == {NoneStr, <<"a">>, <<"b">>}

ChunkIds == {NoChunk, 1}

MkHit(d, c, s, t) ==
    [doc_id |-> d, chunk_id |-> c, score |-> s, text |-> t,
     meta_text |-> NoneStr, meta_content |-> NoneStr, error |-> NoneStr]

KeyHits == {MkHit(d, c, NumScore(1), NoneStr) : d \in DocIds, c \in ChunkIds}

\* hits of one identity whose raw score is missing, numeric or not numeric,
\* and hits of another identity that differ in doc_id (None or "") and in text
FuseHits ==
    {MkHit(<<"a">>, 1, s, NoneStr) : s \in {NoScore, NumScore(1), BadScore}}
    \cup {MkHit(NoneStr, 1, NumScore(2), NoneStr), MkHit(<<>>, 1, NumScore(2), <<"t">>)}

RrfIdle ==
    /\ vector_results = <<>>
    /\ bm25_results = <<>>
    /\ fused = <<>>
    /\ fused_list = <<>>
    /\ rrf_pc = "idle"

RrfInit ==
    /\ vector_results \in SeqsUpTo(KeyHits, MaxHits)
    /\ bm25_results \in SeqsUpTo(KeyHits, MaxHits)
    /\ fused = <<>>
    /\ fused_list = <<>>
    /\ rrf_pc = "start"

FuseInit ==
    /\ vector_results \in SeqsUpTo(FuseHits, MaxHits)
    /\ bm25_results \in SeqsUpTo(FuseHits, MaxHits)
    /\ fused = <<>>
    /\ fused_list = <<>>
    /\ rrf_pc = "start"

\* add_results(vector_results or [], source="vector", is_vector=True)
RrfAddVector ==
    /\ rrf_pc = "start"
    /\ fused' = AddResults(fused, vector_results, "vector", TRUE)
    /\ rrf_pc' = "vector_added"
    /\ UNCHANGED <<vector_results, bm25_results, fused_list>>

\* add_results(bm25_results or [], source="bm25", is_vector=False)
RrfAddBm25 ==
    /\ rrf_pc = "vector_added"
    /\ fused' = AddResults(fused, bm25_results, "bm25", FALSE)
    /\ rrf_pc' = "bm25_added"
    /\ UNCHANGED <<vector_results, bm25_results, fused_list>>

\* fused_list = list(fused.values()); fused_list.sort(...); return fused_list
RrfSortReturn ==
    /\ rrf_pc = "bm25_added"
    /\ fused_list' = SortByRrfDesc(fused)
    /\ rrf_pc' = "returned"
    /\ UNCHANGED <<vector_results, bm25_results, fused>>

-----------------------------------------------------------------------------
(* libs/caching/query_cache.py: make_key *)

\* longest query text given to make_key
MaxQueryLen == 1

\* characters of a query text: two that differ only in case, and the separator
QueryChars == {"a", "A", "|"}

QueryTexts == SeqsUpTo(QueryChars, MaxQueryLen)

\* two values for each integer parameter, one a digit-wise extension of the other
KeyInts == {1, 11}

KeyArgs ==
    [q : QueryTexts, hybrid : BOOLEAN, top_k : KeyInts, vector_k : KeyInts,
     bm25_k : KeyInts, page : KeyInts, page_size : KeyInts, rerank : BOOLEAN]

\* str.lower() on the characters of the model
Lower(s) == [i \in 1..Len(s) |-> IF s[i] = "A" THEN "a" ELSE s[i]]

Bar == <<"|">>

\* mutant: the query text is normalised to lower case before hashing
MakeKeyRawLowercased(a) ==
    Lower(a.q) \o Bar \o BoolToStr(a.hybrid) \o Bar \o IntToStr(a.top_k) \o Bar
        \o IntToStr(a.vector_k) \o Bar \o IntToStr(a.bm25_k) \o Bar
        \o IntToStr(a.page) \o Bar \o IntToStr(a.page_size) \o Bar
        \o BoolToStr(a.rerank)

\* raw = f"{q}|{hybrid}|{top_k}|{vector_k}|{bm25_k}|{page}|{page_size}|{rerank}"
MakeKeyRaw(a) ==
    a.q \o Bar \o BoolToStr(a.hybrid) \o Bar \o IntToStr(a.top_k) \o Bar
        \o IntToStr(a.vector_k) \o Bar \o IntToStr(a.bm25_k) \o Bar
        \o IntToStr(a.page) \o Bar \o IntToStr(a.page_size) \o Bar
        \o BoolToStr(a.rerank)

\* hashlib.sha256(raw.encode("utf-8")).hexdigest()[:32], taken as an ideal
\* (collision-free) hash: the digest stands for the string it was computed from
Sha256Hex32(raw) == [sha256 |-> raw]

\* return f"qcache:{digest}"
MakeKey(a) == [prefix |-> "qcache:", digest |-> Sha256Hex32(MakeKeyRaw(a))]

KeyInit == key_args = <<>> /\ key_out = <<>> /\ key_pc = 0

\* one call of QueryCache.make_key; two calls are compared
MakeKeyCall ==
    /\ key_pc < 2
    /\ \E a \in KeyArgs :
          /\ key_args' = Append(key_args, a)
          /\ key_out' = Append(key_out, [raw |-> MakeKeyRaw(a), key |-> MakeKey(a)])
    /\ key_pc' = key_pc + 1

-----------------------------------------------------------------------------
(* libs/caching/query_cache.py: QueryCache *)

\* last instant of the clock
MaxTime == 2

\* Optional values: None is the empty sequence, a value v is <<v>>
None == <<>>

Some(v) == <<v>>

\* an empty dict
EmptyDict == <<>>

\* d.pop(key, None)
DictPop(d, key) == [x \in (DOMAIN d) \ {key} |-> d[x]]

\* d[key] = v
DictPut(d, key, v) == (key :> v) @@ d

\* json.dumps(value, ensure_ascii=False)
JsonDumps(value) == [json |-> value]

\* json.loads(val)
JsonLoads(payload) == payload.json

\* the QueryCache instance together with the server and the clock it talks to
TheCache ==
    [use_redis |-> use_redis, redis_up |-> redis_up, redis_data |-> redis_data,
     store |-> store, expire |-> expire, now |-> now]

\* is_redis_available(): bool(self._use_redis and self._redis_client is not None)
IsRedisAvailable(c) == c.use_redis

\* Redis GET: the payload unless the key is missing or its setex time is over
RedisGet(c, key) ==
    IF key \in DOMAIN c.redis_data /\ ~(c.now > c.redis_data[key].exp)
    THEN Some(c.redis_data[key].val) ELSE None

\* mutant: the fallback store never expires anything
MemExpiredNever(c, key) == FALSE

\* key in self._expire and time.time() > self._expire[key]
MemExpired(c, key) == key \in DOMAIN c.expire /\ c.now > c.expire[key]

\* QueryCache.get: what it returns
GetResult(c, key) ==
    IF c.use_redis
    THEN IF c.redis_up
         THEN LET val == RedisGet(c, key)
              IN  IF val = None THEN None ELSE Some(JsonLoads(val[1]))
         ELSE None
    ELSE IF MemExpired(c, key) THEN None
         ELSE IF key \in DOMAIN c.store THEN Some(c.store[key]) ELSE None

\* QueryCache.get: the cache it leaves behind
GetEffect(c, key) ==
    IF ~c.use_redis /\ MemExpired(c, key)
    THEN [c EXCEPT !.store = DictPop(@, key), !.expire = DictPop(@, key)]
    ELSE c

\* mutant: once a write has failed over to the local store, set stays there
SetTargetStickyFallback(c, value, ttl) ==
    IF value = None THEN "none"
    ELSE IF c.use_redis /\ c.redis_up /\ ttl > 0 /\ c.store = EmptyDict THEN "redis"
    ELSE "memory"

\* where QueryCache.set puts a value: nowhere, the shared store, the local one
SetTarget(c, value, ttl) ==
    IF value = None THEN "none"
    ELSE IF c.use_redis /\ c.redis_up /\ ttl > 0 THEN "redis"
    ELSE "memory"

\* QueryCache.set: the cache it leaves behind
SetEffect(c, key, value, ttl) ==
    IF SetTarget(c, value, ttl) = "none" THEN c
    ELSE IF SetTarget(c, value, ttl) = "redis"
    THEN [c EXCEPT !.redis_data =
            DictPut(@, key, [val |-> JsonDumps(value[1]), exp |-> c.now + ttl])]
    ELSE [c EXCEPT !.store = DictPut(@, key, value[1]),
                   !.expire = DictPut(@, key, c.now + ttl)]

\* the variables take the fields of c
CacheBecomes(c) ==
    /\ use_redis' = c.use_redis
    /\ redis_up' = c.redis_up
    /\ redis_data' = c.redis_data
    /\ store' = c.store
    /\ expire' = c.expire
    /\ now' = c.now

CacheKeys == {"k1", "k2"}

CacheValues == {"v1", "v2"}

Ttls == {1, 2}

\* QueryCache(): _init_redis succeeds only if the package is there and ping answers
CacheInit ==
    /\ redis_up \in BOOLEAN
    /\ use_redis \in {b \in BOOLEAN : b => redis_up}
    /\ redis_data = EmptyDict
    /\ store = EmptyDict
    /\ expire = EmptyDict
    /\ now = 0
    /\ last_set = EmptyDict
    /\ last_get = None

\* a call of QueryCache.set(key, value, ttl)
CacheSet ==
    \E key \in CacheKeys, value \in {None} \cup {Some(v) : v \in CacheValues},
       ttl \in Ttls :
        /\ CacheBecomes(SetEffect(TheCache, key, value, ttl))
        /\ last_set' = IF value = None THEN last_set
                       ELSE DictPut(last_set, key,
                                [at |-> now, ttl |-> ttl, value |-> value[1],
                                 target |-> SetTarget(TheCache, value, ttl)])
        /\ last_get' = None

\* a call of QueryCache.get(key)
CacheGet ==
    \E key \in CacheKeys :
        /\ CacheBecomes(GetEffect(TheCache, key))
        /\ last_get' = Some([key |-> key, result |-> GetResult(TheCache, key),
                             at |-> now,
                             since |-> IF key \in DOMAIN last_set
                                       THEN Some(last_set[key]) ELSE None])
        /\ UNCHANGED last_set

\* time passes
Tick ==
    /\ now < MaxTime
    /\ now' = now + 1
    /\ last_get' = None
    /\ UNCHANGED <<use_redis, redis_up, redis_data, store, expire, last_set>>

\* the Redis server stops answering
RedisFail ==
    /\ redis_up
    /\ redis_up' = FALSE
    /\ last_get' = None
    /\ UNCHANGED <<use_redis, redis_data, store, expire, now, last_set>>

\* the Redis server answers again
RedisRecover ==
    /\ ~redis_up
    /\ redis_up' = TRUE
    /\ last_get' = None
    /\ UNCHANGED <<use_redis, redis_data, store, expire, now, last_set>>

-----------------------------------------------------------------------------
(* services/retriever/hybrid_retriever.py *)

Min(a, b) == IF a < b THEN a ELSE b

\* s[:n] for n >= 0
Take(s, n) == SubSeq(s, 1, Min(n, Len(s)))

\* mutant: the slice takes one entry past end
SliceThroughEnd(s, start, end) == SubSeq(s, start + 1, Min(end + 1, Len(s)))

\* s[start:end] for 0 <= start <= end
Slice(s, start, end) == SubSeq(s, start + 1, Min(end, Len(s)))

\* a latency_ms dict with one more stage
WithStage(latency, stage, ms) == (stage :> ms) @@ latency

\* lines 73-120: pagination, latency_ms and the returned dict, once the fused
\* list, the candidate window and the window after the optional rerank are known
HybridAfterRerank(query, vec, bm, rerank, page, page_size, debug, dur, fused_results, candidates, reranked_candidates) ==
    LET start == (page - 1) * page_size
        end == start + page_size
        page_items == IF start >= Len(reranked_candidates) THEN <<>>
                      ELSE Slice(reranked_candidates, start, end)
        stages == ("vector" :> dur) @@ ("bm25" :> dur) @@ ("fusion" :> dur)
        latency_ms ==
            IF rerank
            THEN WithStage(WithStage(stages, "rerank",
                                     IF candidates # <<>> THEN dur ELSE 0),
                           "total",
                           3 * dur + (IF candidates # <<>> THEN dur ELSE 0))
            ELSE WithStage(stages, "total", 3 * dur)
    IN  [query          |-> query,
         vector_results |-> vec,
         bm25_results   |-> bm,
         fused_results  |-> fused_results,
         final_results  |-> page_items,
         latency_ms     |-> latency_ms,
         pagination     |-> [page |-> page, page_size |-> page_size,
                             total |-> Len(candidates)],
         rerank         |-> rerank,
         debug          |-> IF debug
                            THEN Some([vector_results_raw |-> vec,
                                       bm25_results_raw |-> bm,
                                       fused_results_full |-> fused_results,
                                       candidates_before_rerank |-> candidates,
                                       rerank_enabled |-> rerank])
                            ELSE None]

\* mutant: the window is the whole fused list whatever top_k
CandidateWindowAll(fused_results, top_k) == fused_results

\* line 62: candidates = fused_results[:top_k] if top_k > 0 else fused_results
CandidateWindow(fused_results, top_k) ==
    IF top_k > 0 THEN Take(fused_results, top_k) ELSE fused_results

\* rerank.py:125-128: a copy of the candidate with its rerank scores, floats
\* that depend on the embedding model
WithRerankScores(c) ==
    ("rerank_score" :> "float") @@ ("score_rerank_cos" :> "float") @@ c

Reverse(s) == [i \in 1..Len(s) |-> s[Len(s) + 1 - i]]

\* the orders in which the reranker is taken to return the candidates
RerankOrders == {"same", "reversed"}

\* Reranker.rerank(query, candidates): the scored copies of the candidates
\* sorted by rerank_score, which puts them in the order `order`
RerankerOut(candidates, order) ==
    IF order = "reversed"
    THEN Reverse([i \in 1..Len(candidates) |-> WithRerankScores(candidates[i])])
    ELSE [i \in 1..Len(candidates) |-> WithRerankScores(candidates[i])]

\* line 65: if rerank and candidates
RerankerInvoked(rerank, candidates) == rerank /\ candidates # <<>>

\* lines 65-71: the optional rerank of the candidate window
HybridAfterWindow(query, vec, bm, rerank, page, page_size, debug, dur, order, fused_results, candidates) ==
    HybridAfterRerank(query, vec, bm, rerank, page, page_size, debug, dur,
                      fused_results, candidates,
                      IF RerankerInvoked(rerank, candidates)
                      THEN RerankerOut(candidates, order) ELSE candidates)

\* lines 62-63: the candidate window of the fused list
HybridAfterFusion(query, vec, bm, top_k, rerank, page, page_size, debug, dur, order, fused_results) ==
    HybridAfterWindow(query, vec, bm, rerank, page, page_size, debug, dur,
                      order, fused_results, CandidateWindow(fused_results, top_k))

\* HybridRetriever.search once both retrievers have returned vec and bm; every
\* timed stage took dur ms
HybridSearch(query, vec, bm, top_k, rerank, page, page_size, debug, dur, order) ==
    HybridAfterFusion(query, vec, bm, top_k, rerank, page, page_size, debug, dur,
                      order, RrfFuse(vec, bm))

-----------------------------------------------------------------------------
(* libs/db/milvus_client.py, services/retriever/vector_retriever.py,
   services/retriever/bm25_retriever.py: what a search can do *)

\* search_vectors caught col.search failing: return [{"error": str(e)}]
ErrorHit ==
    [doc_id |-> NoneStr, chunk_id |-> NoChunk, score |-> NoScore, text |-> NoneStr,
     meta_text |-> NoneStr, meta_content |-> NoneStr, error |-> <<"e">>]

\* a Milvus hit: score, doc_id, chunk_id, meta
MilvusHit ==
    [doc_id |-> <<"d">>, chunk_id |-> 0, score |-> NumScore(1), text |-> NoneStr,
     meta_text |-> <<"t">>, meta_content |-> NoneStr, error |-> NoneStr]

\* a BM25 hit: chunk_id, score, text
LexicalHit ==
    [doc_id |-> NoneStr, chunk_id |-> 0, score |-> NumScore(2), text |-> <<"t">>,
     meta_text |-> NoneStr, meta_content |-> NoneStr, error |-> NoneStr]

\* VectorRetriever.search: raises (embedding, connect or Collection failed),
\* returns the error record of a failed col.search, or returns hits
VecOutcomes ==
    {[kind |-> "raise", hits |-> <<>>],
     [kind |-> "search_error", hits |-> <<ErrorHit>>],
     [kind |-> "ok", hits |-> <<>>],
     [kind |-> "ok", hits |-> <<MilvusHit>>]}

\* BM25Retriever.search: raises or returns hits
BmOutcomes ==
    {[kind |-> "raise", hits |-> <<>>],
     [kind |-> "ok", hits |-> <<>>],
     [kind |-> "ok", hits |-> <<LexicalHit>>]}

\* what a timed stage is measured to take, in ms: some positive time
Durations == {1}

\* what the collaborators do during one request: the vector search, the
\* lexical search inside HybridRetriever, the gateway's own lexical search
Envs == [vec : VecOutcomes, bm_inner : BmOutcomes, bm_fb : BmOutcomes,
         dur : Durations]

-----------------------------------------------------------------------------
(* services/api_gateway/main.py: query_endpoint *)

\* requests answered in one behaviour
MaxRequests == 2

\* query_cache.set(cache_key, response, ttl=30)
ResponseTtl == 30

\* the two defaults vector_k = 5, bm25_k = 5
DefaultK == 5

\* the default page_size
DefaultPageSize == 10

Requests ==
    [q : {<<"a">>}, hybrid : BOOLEAN, top_k : {DefaultK}, vector_k : {DefaultK},
     bm25_k : {DefaultK}, rerank : {FALSE}, page : {1},
     page_size : {DefaultPageSize}, debug : BOOLEAN]

\* the loop body of lines 344-362
FormatVectorHit(hit) ==
    [doc_id       |-> hit.doc_id,
     chunk_id     |-> hit.chunk_id,
     text         |-> IF ~Truthy(hit.text)
                      THEN Or(hit.meta_text, hit.meta_content) ELSE hit.text,
     score_vector |-> hit.score,
     score_bm25   |-> NoScore,
     rrf_score    |-> None,
     sources      |-> <<"vector">>,
     error        |-> hit.error]

\* the loop body of lines 393-404 and 470-481
FormatBm25Hit(hit) ==
    [doc_id       |-> NoneStr,
     chunk_id     |-> hit.chunk_id,
     text         |-> hit.text,
     score_vector |-> NoScore,
     score_bm25   |-> hit.score,
     rrf_score    |-> None,
     sources      |-> <<"bm25">>,
     error        |-> NoneStr]

\* float(hit["score"]) raises on a score that is no number
FormatRaises(hits) == \E i \in 1..Len(hits) : hits[i].score.kind = "str"

\* for hit in raw_hits: formatted.append(item)
FormatVectorHits(hits) == [i \in 1..Len(hits) |-> FormatVectorHit(hits[i])]

\* for hit in bm25_hits: formatted.append(...)
FormatBm25Hits(hits) == [i \in 1..Len(hits) |-> FormatBm25Hit(hits[i])]

\* does the try block of the request raise?
TryRaises(r, e) ==
    IF ~r.hybrid
    THEN e.vec.kind = "raise" \/ FormatRaises(e.vec.hits)
    ELSE e.vec.kind = "raise" \/ e.bm_inner.kind = "raise"

\* lines 336-377: the response of the vector-only branch
VectorOnlyResponse(r, e) ==
    [status     |-> "ok",
     trace_id   |-> r.trace_id,
     cache_hit  |-> FALSE,
     query      |-> r.q,
     hybrid     |-> FALSE,
     top_k      |-> r.top_k,
     latency_ms |-> ("vector" :> e.dur) @@ ("total" :> e.dur),
     results    |-> FormatVectorHits(e.vec.hits)]

\* lines 379-420: the degraded response of the vector-only branch
VectorOnlyDegraded(r, e) ==
    [status     |-> "ok",
     trace_id   |-> r.trace_id,
     cache_hit  |-> FALSE,
     query      |-> r.q,
     hybrid     |-> FALSE,
     top_k      |-> r.top_k,
     latency_ms |-> ("vector" :> 0) @@ ("bm25" :> e.dur) @@ ("total" :> e.dur),
     results    |-> FormatBm25Hits(e.bm_fb.hits)]

\* lines 439-454: the response built from what hybrid_retriever.search returned
HybridResponseOf(r, res) ==
    LET base == [status     |-> "ok",
                 trace_id   |-> r.trace_id,
                 cache_hit  |-> FALSE,
                 query      |-> r.q,
                 hybrid     |-> TRUE,
                 top_k      |-> r.top_k,
                 vector_k   |-> r.vector_k,
                 bm25_k     |-> r.bm25_k,
                 rerank     |-> r.rerank,
                 latency_ms |-> res.latency_ms,
                 pagination |-> res.pagination,
                 results    |-> IF res.final_results # <<>>
                                THEN res.final_results ELSE res.fused_results]
    IN  IF r.debug THEN ("debug" :> res.debug) @@ base ELSE base

\* lines 427-454: the response of the hybrid branch
HybridResponse(r, e) ==
    HybridResponseOf(r, HybridSearch(r.q, e.vec.hits, e.bm_inner.hits, r.top_k,
                                     r.rerank, r.page, r.page_size, r.debug,
                                     e.dur, "same"))

\* lines 456-504: the degraded response of the hybrid branch
HybridDegraded(r, e) ==
    LET formatted == FormatBm25Hits(e.bm_fb.hits)
    IN  [status     |-> "ok",
         trace_id   |-> r.trace_id,
         cache_hit  |-> FALSE,
         query      |-> r.q,
         hybrid     |-> TRUE,
         top_k      |-> r.top_k,
         vector_k   |-> r.vector_k,
         bm25_k     |-> r.top_k,
         rerank     |-> FALSE,
         latency_ms |-> ("bm25" :> e.dur) @@ ("total" :> e.dur),
         pagination |-> [page |-> 1,
                         page_size |-> IF Len(formatted) # 0
                                       THEN Len(formatted) ELSE r.page_size,
                         total |-> Len(formatted)],
         results    |-> formatted]

\* lines 509-513: the degradation and health fields
WithHealth(response, degraded, prefix, redis_ok) ==
    ("degraded" :> degraded)
    @@ ("degraded_mode" :> IF degraded THEN Some("bm25_only") ELSE None)
    @@ ("degraded_reason" :> IF degraded THEN Some(prefix) ELSE None)
    @@ ("milvus_ok" :> ~degraded)
    @@ ("redis_ok" :> redis_ok)
    @@ response

\* mutant: the write gate forgets the degraded flag
ShouldCacheIgnoringDegraded(r, cache_key, response) ==
    ~r.debug /\ cache_key # None /\ response.results # <<>>

\* lines 518-523: the condition of the cache write
ShouldCache(r, cache_key, response) ==
    ~r.debug /\ cache_key # None /\ response.results # <<>> /\ ~response.degraded

\* mutant: the degraded hybrid response reports the time spent in the failed search
DegradedLatencyMeasured(r, e) ==
    IF r.hybrid
    THEN [HybridDegraded(r, e) EXCEPT
            !.latency_ms = ("vector" :> e.dur) @@ ("bm25" :> e.dur) @@ ("total" :> e.dur)]
    ELSE [VectorOnlyDegraded(r, e) EXCEPT
            !.latency_ms = ("vector" :> e.dur) @@ ("bm25" :> e.dur) @@ ("total" :> e.dur)]

\* the response of an except block
DegradedResponse(r, e) ==
    IF r.hybrid THEN HybridDegraded(r, e) ELSE VectorOnlyDegraded(r, e)

\* mutant: a debug request consults the cache like any other
UseCacheDespiteDebug(r, redis_ok) == redis_ok

\* line 287: if not debug and redis_ok
UseCache(r, redis_ok) == ~r.debug /\ redis_ok

\* lines 288-297: the cache key of request r
RequestKey(r) ==
    MakeKey([q |-> r.q, hybrid |-> r.hybrid, top_k |-> r.top_k,
             vector_k |-> r.vector_k, bm25_k |-> r.bm25_k,
             page |-> r.page, page_size |-> r.page_size, rerank |-> r.rerank])

\* mutant: the entry is returned with the trace_id it was stored with
CacheHitResponseAsStored(cached, r) == [cached EXCEPT !.cache_hit = TRUE]

\* lines 302-308: the cached dict with trace_id and cache_hit set; every
\* stored response has the five keys of the setdefault calls
CacheHitResponse(cached, r) ==
    [cached EXCEPT !.trace_id = r.trace_id, !.cache_hit = TRUE]

\* query_endpoint: request r, collaborators behaving as e, cache c
QueryEndpoint(r, e, c) ==
    LET redis_ok == IsRedisAvailable(c)
        use_cache == UseCache(r, redis_ok)
        cache_key == IF use_cache THEN Some(RequestKey(r)) ELSE None
        cached == IF use_cache THEN GetResult(c, cache_key[1]) ELSE None
        c1 == IF use_cache THEN GetEffect(c, cache_key[1]) ELSE c
        raises == TryRaises(r, e)
        no_calls == [at |-> c.now, redis_up |-> c.redis_up,
                     cache_get |-> use_cache, cache_set |-> FALSE,
                     vector |-> "not_called", bm25_inner |-> "not_called",
                     bm25_fallback |-> "not_called", fuse |-> FALSE]
        ran == [no_calls EXCEPT
                  !.vector = e.vec.kind,
                  !.bm25_inner = IF r.hybrid /\ e.vec.kind # "raise"
                                 THEN e.bm_inner.kind ELSE @,
                  !.bm25_fallback = IF raises THEN e.bm_fb.kind ELSE @,
                  !.fuse = r.hybrid /\ ~raises]
    IN  IF cached # None
        THEN \* lines 300-327: answered from the cache
             [resp |-> CacheHitResponse(cached[1], r),
              cache |-> c1, calls |-> no_calls, written |-> None]
        ELSE IF raises /\ e.bm_fb.kind = "raise"
        THEN \* the exception of bm25_retriever.search leaves the handler
             [resp |-> [status |-> "error"], cache |-> c1, calls |-> ran,
              written |-> None]
        ELSE LET body == IF raises THEN DegradedResponse(r, e)
                         ELSE IF r.hybrid THEN HybridResponse(r, e)
                         ELSE VectorOnlyResponse(r, e)
                 response == WithHealth(body, raises,
                                        IF r.hybrid THEN "hybrid_search_failed"
                                        ELSE "vector_search_failed",
                                        redis_ok)
                 write == ShouldCache(r, cache_key, response)
             IN  [resp |-> response,
                  cache |-> IF write
                            THEN SetEffect(c1, cache_key[1], Some(response),
                                           ResponseTtl)
                            ELSE c1,
                  calls |-> [ran EXCEPT !.cache_set = write],
                  written |-> IF write THEN Some(response) ELSE None]

\* e says nothing about a lexical search that the request never makes
EnvConsulted(r, e) ==
    /\ (r.hybrid /\ e.vec.kind # "raise") \/ e.bm_inner = [kind |-> "ok", hits |-> <<>>]
    /\ TryRaises(r, e) \/ e.bm_fb = [kind |-> "ok", hits |-> <<>>]

NoResp == [status |-> "none"]

NoReq == [trace_id |-> 0]

\* what the response cache holds
CacheContents(c) == [redis_data |-> c.redis_data, store |-> c.store,
                     expire |-> c.expire]

GwIdle ==
    /\ req = NoReq
    /\ resp = NoResp
    /\ calls = None
    /\ cache_before = None
    /\ written = None

\* one GET /query, from arrival to response
QueryRequest ==
    /\ req.trace_id < MaxRequests
    /\ \E r0 \in Requests, e \in Envs :
        \E r \in {("trace_id" :> (req.trace_id + 1)) @@ r0} :
          \E out \in {QueryEndpoint(r, e, TheCache)} :
              /\ EnvConsulted(r, e)
              /\ req' = r
              /\ resp' = out.resp
              /\ calls' = Some(out.calls)
              /\ cache_before' = Some(CacheContents(TheCache))
              /\ written' = out.written
              /\ CacheBecomes(out.cache)
    /\ UNCHANGED <<last_set, last_get>>

\* time passes between requests: the lifetime of a cached response to the
\* second, or a second more
Wait ==
    /\ now < MaxTime
    /\ \E d \in {ResponseTtl, ResponseTtl + 1} : now' = now + d
    /\ UNCHANGED <<use_redis, redis_up, redis_data, store, expire, last_set,
                   last_get>>

-----------------------------------------------------------------------------
(* libs/caching/query_cache.py: get and set called from several threads, the
   cache being in fallback mode (self._use_redis false) *)

\* threads that call the cache
MaxThreads == 2

Threads == 1..MaxThreads

\* the keys the threads contend for
SharedKeys == {"k1", "k2"}

\* what the threads store, and for how long
SharedValues == {"v1"}

SharedTtls == {1, 2}

\* a thread outside get and set
IdleThread ==
    [pc |-> "idle", key |-> "", value |-> "", ttl |-> 0, seen |-> None, clock |-> 0]

\* mutant: no lock is taken
LockIgnored == TRUE

\* with self._lock: the lock can be taken
LockIsFree == ~locked

\* the statements executed under the lock
CriticalPcs == {"check", "pop_store", "pop_expire", "return_none",
                "return_value", "write_store", "write_expire"}

InCritical(t) == thr[t].pc \in CriticalPcs

LockIdle == locked = FALSE /\ thr = <<>>

LockInit == locked = FALSE /\ thr = [t \in Threads |-> IdleThread]

\* thread t calls get(key): line 116 is false, it reaches `with self._lock`
BeginGet(t) ==
    /\ thr[t].pc = "idle"
    /\ \E key \in SharedKeys :
          thr' = [thr EXCEPT ![t] = [IdleThread EXCEPT !.pc = "acquire_get",
                                                        !.key = key]]
    /\ UNCHANGED <<locked, cacheVars>>

\* thread t calls set(key, value, ttl) with a value: lines 139 and 143 are
\* false, it reaches `with self._lock`
BeginSet(t) ==
    /\ thr[t].pc = "idle"
    /\ \E key \in SharedKeys, value \in SharedValues, ttl \in SharedTtls :
          thr' = [thr EXCEPT ![t] = [IdleThread EXCEPT !.pc = "acquire_set",
                                                        !.key = key,
                                                        !.value = value,
                                                        !.ttl = ttl]]
    /\ UNCHANGED <<locked, cacheVars>>

\* lines 127 and 160: with self._lock
Acquire(t) ==
    /\ thr[t].pc \in {"acquire_get", "acquire_set"}
    /\ LockIsFree
    /\ locked' = TRUE
    /\ thr' = [thr EXCEPT ![t].pc = IF thr[t].pc = "acquire_get"
                                    THEN "check" ELSE "write_store"]
    /\ UNCHANGED cacheVars

\* line 129: the expiry check; clock is what time.time() gave
GetCheck(t) ==
    /\ thr[t].pc = "check"
    /\ thr' = IF MemExpired(TheCache, thr[t].key)
              THEN [thr EXCEPT ![t].pc = "pop_store",
                               ![t].seen = Some(expire[thr[t].key]),
                               ![t].clock = now]
              ELSE [thr EXCEPT ![t].pc = "return_value", ![t].clock = now]
    /\ UNCHANGED <<locked, cacheVars>>

\* line 130: self._store.pop(key, None)
GetPopStore(t) ==
    /\ thr[t].pc = "pop_store"
    /\ store' = DictPop(store, thr[t].key)
    /\ thr' = [thr EXCEPT ![t].pc = "pop_expire"]
    /\ UNCHANGED <<locked, use_redis, redis_up, redis_data, expire, now,
                   last_set, last_get>>

\* line 131: self._expire.pop(key, None)
GetPopExpire(t) ==
    /\ thr[t].pc = "pop_expire"
    /\ expire' = DictPop(expire, thr[t].key)
    /\ thr' = [thr EXCEPT ![t].pc = "return_none"]
    /\ UNCHANGED <<locked, use_redis, redis_up, redis_data, store, now,
                   last_set, last_get>>

\* lines 132 and 133: return, leaving the with block
GetReturn(t) ==
    /\ thr[t].pc \in {"return_none", "return_value"}
    /\ locked' = FALSE
    /\ thr' = [thr EXCEPT ![t] = IdleThread]
    /\ last_get' = Some([key |-> thr[t].key,
                         result |-> IF thr[t].pc = "return_value"
                                       /\ thr[t].key \in DOMAIN store
                                    THEN Some(store[thr[t].key]) ELSE None,
                         at |-> now,
                         since |-> None])
    /\ UNCHANGED <<use_redis, redis_up, redis_data, store, expire, now, last_set>>

\* line 161: self._store[key] = value
SetWriteStore(t) ==
    /\ thr[t].pc = "write_store"
    /\ store' = DictPut(store, thr[t].key, thr[t].value)
    /\ thr' = [thr EXCEPT ![t].pc = "write_expire"]
    /\ UNCHANGED <<locked, use_redis, redis_up, redis_data, expire, now,
                   last_set, last_get>>

\* line 162: self._expire[key] = time.time() + ttl, leaving the with block
SetWriteExpire(t) ==
    /\ thr[t].pc = "write_expire"
    /\ expire' = DictPut(expire, thr[t].key, now + thr[t].ttl)
    /\ locked' = FALSE
    /\ thr' = [thr EXCEPT ![t] = IdleThread]
    /\ UNCHANGED <<use_redis, redis_up, redis_data, store, now, last_set, last_get>>

-----------------------------------------------------------------------------
(* services/retriever/hybrid_retriever.py and services/api_gateway/main.py:
   one hybrid query fetched page after page *)

\* pages fetched
MaxPage == 3

\* largest page_size
MaxPageSize == 2

\* largest top_k
MaxTopK == 3

\* the i-th hit of the vector search
MilvusHitAt(i) == [MilvusHit EXCEPT !.chunk_id = i]

\* the i-th hit of the lexical search
LexicalHitAt(i) == [LexicalHit EXCEPT !.chunk_id = i]

VecLists == {[i \in 1..n |-> MilvusHitAt(i)] : n \in 0..MaxHits}

BmLists == {[i \in 1..n |-> LexicalHitAt(i)] : n \in 0..MaxHits}

\* top_k, zero and negative included
TopKs == (0 - 1)..MaxTopK

\* the arguments of HybridRetriever.search but page, what the two retrievers
\* return and the order the reranker gives
HybridArgs ==
    [query : {<<"a">>}, vec : VecLists, bm : BmLists, top_k : TopKs,
     rerank : BOOLEAN, page_size : 1..MaxPageSize, debug : BOOLEAN,
     order : RerankOrders]

\* the /query request that asks for page `page` with the arguments a
HyRequest(a, page) ==
    [trace_id |-> page, q |-> a.query, hybrid |-> TRUE, top_k |-> a.top_k,
     vector_k |-> DefaultK, bm25_k |-> DefaultK, rerank |-> a.rerank,
     page |-> page, page_size |-> a.page_size, debug |-> a.debug]

HyIdle ==
    /\ hy_args = <<>>
    /\ hy_res = None
    /\ hy_resp = None
    /\ hy_pages = <<>>
    /\ hy_calls = <<>>

HyInit ==
    /\ hy_args \in HybridArgs
    /\ hy_res = None
    /\ hy_resp = None
    /\ hy_pages = <<>>
    /\ hy_calls = <<>>

\* hybrid_retriever.search(..., page = the next page) and the response that
\* query_endpoint builds from what it returns
SearchPage ==
    /\ Len(hy_pages) < MaxPage
    /\ \E dur \in Durations :
        \E res \in {HybridSearch(hy_args.query, hy_args.vec, hy_args.bm,
                                 hy_args.top_k, hy_args.rerank,
                                 Len(hy_pages) + 1, hy_args.page_size,
                                 hy_args.debug, dur, hy_args.order)} :
            /\ hy_res' = Some(res)
            /\ hy_resp' = Some(HybridResponseOf(
                                  HyRequest(hy_args, Len(hy_pages) + 1), res))
            /\ hy_pages' = Append(hy_pages, res.final_results)
            /\ \E cands \in {CandidateWindow(res.fused_results, hy_args.top_k)} :
                hy_calls' = IF RerankerInvoked(hy_args.rerank, cands)
                            THEN Append(hy_calls, cands)
                            ELSE hy_calls
    /\ UNCHANGED hy_args

-----------------------------------------------------------------------------
(* services/retriever/rerank.py *)

\* scores are counted in units of half the tolerance of _normalize, so that
\* 1e-9 is NormTol units
NormTol == 2

MaxScore == 3

MaxSeries == 3

MaxCands == 2

\* common denominator of every (s - mn) / (mx - mn) and of 0.5
NormScale == 2 * ProdRange(1, MaxScore)

\* alpha, beta, gamma, delta of __init__, in tenths
Weights == [alpha |-> 10, beta |-> 2, gamma |-> 2, delta |-> 3]

SetMin(S) == CHOOSE x \in S : \A y \in S : x <= y

SetMax(S) == CHOOSE x \in S : \A y \in S : x >= y

\* the min-max branch of _normalize, line 54
MinMax(scores, mn, mx) ==
    [i \in 1..Len(scores) |->
        IF scores[i] # None
        THEN ((scores[i][1] - mn) * NormScale) \div (mx - mn) ELSE 0]

\* the 0.5 branch of _normalize, line 52
Midpoint(scores) ==
    [i \in 1..Len(scores) |-> IF scores[i] # None THEN NormScale \div 2 ELSE 0]

\* mutant: equal values are all given 0.0
NormalizeEqualToZero(scores) ==
    LET vals == {scores[i][1] : i \in {j \in 1..Len(scores) : scores[j] # None}}
    IN  IF vals = {} \/ SetMax(vals) - SetMin(vals) < NormTol
        THEN [i \in 1..Len(scores) |-> 0]
        ELSE MinMax(scores, SetMin(vals), SetMax(vals))

\* Reranker._normalize(scores), times NormScale; a score is None or Some(n)
Normalize(scores) ==
    LET vals == {scores[i][1] : i \in {j \in 1..Len(scores) : scores[j] # None}}
    IN  IF vals = {} THEN [i \in 1..Len(scores) |-> 0]
        ELSE IF SetMax(vals) - SetMin(vals) < NormTol THEN Midpoint(scores)
        ELSE MinMax(scores, SetMin(vals), SetMax(vals))

\* lines 77-81: the text of a candidate, its own or that of its meta
CandidateText(c) == IF Truthy(c.text) THEN c.text ELSE Or(c.meta_text, <<>>)

\* lines 83-87: the cosine of the candidate's text with the query; c.cos is
\* what _cosine gives for the embedding of that text
CosineOf(c) == IF Truthy(CandidateText(c)) THEN Some(c.cos) ELSE Some(0)

\* the calls of self.model.embed_one in the loop of lines 76-89
RECURSIVE CandidateEmbeds(_, _)
CandidateEmbeds(candidates, i) ==
    IF i > Len(candidates) THEN <<>>
    ELSE (IF Truthy(CandidateText(candidates[i]))
          THEN <<CandidateText(candidates[i])>> ELSE <<>>)
         \o CandidateEmbeds(candidates, i + 1)

\* line 124, times 10 * NormScale
RerankScore(cs, nb, nv, nr) ==
    Weights.alpha * cs + Weights.beta * nb + Weights.gamma * nv + Weights.delta * nr

\* lines 116-128: the copies of the candidates with their two new fields
Scored(candidates, cos_norm, bm25_norm, vec_norm, rrf_norm) ==
    [i \in 1..Len(candidates) |->
        [c            |-> candidates[i],
         rerank_score |-> RerankScore(cos_norm[i], bm25_norm[i],
                                      vec_norm[i], rrf_norm[i]),
         score_rerank_cos |-> cos_norm[i]]]

\* x put behind every element of the sorted list s that does not rank below it
InsertByRerankDesc(s, x) ==
    LET n == Cardinality({i \in 1..Len(s) : s[i].rerank_score >= x.rerank_score})
    IN  SubSeq(s, 1, n) \o <<x>> \o SubSeq(s, n + 1, Len(s))

RECURSIVE SortByRerankFrom(_, _, _)
SortByRerankFrom(acc, s, i) ==
    IF i > Len(s) THEN acc
    ELSE SortByRerankFrom(InsertByRerankDesc(acc, s[i]), s, i + 1)

\* mutant: descending, equal scores in reverse
SortByRerankDescReversed(s) == SortByRerankFrom(<<>>, Reverse(s), 1)

\* line 131: reranked.sort(key=rerank_score, reverse=True), stable
SortByRerankDesc(s) == SortByRerankFrom(<<>>, s, 1)

\* mutant: the query is embedded before the candidates are looked at
RerankEmbedsFirst(query, candidates) ==
    [out    |-> SortByRerankDesc(Scored(candidates,
                    Normalize([i \in 1..Len(candidates) |-> CosineOf(candidates[i])]),
                    Normalize([i \in 1..Len(candidates) |-> candidates[i].score_bm25]),
                    Normalize([i \in 1..Len(candidates) |-> candidates[i].score_vector]),
                    Normalize([i \in 1..Len(candidates) |-> candidates[i].rrf_score]))),
     embeds |-> <<query>> \o CandidateEmbeds(candidates, 1)]

\* Reranker.rerank(query, candidates): the returned list and the texts that
\* were passed to the embedding provider
Rerank(query, candidates) ==
    IF candidates = <<>> THEN [out |-> <<>>, embeds |-> <<>>]
    ELSE [out    |-> SortByRerankDesc(Scored(candidates,
                    Normalize([i \in 1..Len(candidates) |-> CosineOf(candidates[i])]),
                    Normalize([i \in 1..Len(candidates) |-> candidates[i].score_bm25]),
                    Normalize([i \in 1..Len(candidates) |-> candidates[i].score_vector]),
                    Normalize([i \in 1..Len(candidates) |-> candidates[i].rrf_score]))),
          embeds |-> <<query>> \o CandidateEmbeds(candidates, 1)]

ScoreVals == 0..MaxScore

OptScores == {None} \cup {Some(v) : v \in ScoreVals}

\* where a candidate has its text: nowhere, in text, in meta.text
CandidateTexts ==
    {[text |-> NoneStr, meta_text |-> NoneStr],
     [text |-> <<"t">>, meta_text |-> NoneStr],
     [text |-> <<>>, meta_text |-> <<"m">>]}

RerankCandidates ==
    {[text |-> t.text, meta_text |-> t.meta_text, cos |-> cs,
      score_bm25 |-> b, score_vector |-> v, rrf_score |-> r] :
        t \in CandidateTexts, cs \in {0, MaxScore},
        b \in {None, Some(2)}, v \in {None, Some(0)},
        r \in {Some(1), Some(MaxScore)}}

RkIdle ==
    /\ rk_cands = <<>>
    /\ rk_out = None
    /\ rk_embeds = <<>>
    /\ nz_in = <<>>
    /\ nz_out = None

RerankInit ==
    /\ rk_cands \in SeqsUpTo(RerankCandidates, MaxCands)
    /\ rk_out = None
    /\ rk_embeds = <<>>
    /\ nz_in = <<>>
    /\ nz_out = None

\* the direct calls of the reranker that go with the hybrid searches
RerankInitSmall ==
    /\ rk_cands \in SeqsUpTo({c \in RerankCandidates :
                                 c.cos = 0 /\ c.score_bm25 = None
                                           /\ c.score_vector = None
                                           /\ c.rrf_score = Some(1)}, 1)
    /\ rk_out = None
    /\ rk_embeds = <<>>
    /\ nz_in = <<>>
    /\ nz_out = None

NormalizeInit ==
    /\ rk_cands = <<>>
    /\ rk_out = None
    /\ rk_embeds = <<>>
    /\ nz_in \in SeqsUpTo(OptScores, MaxSeries)
    /\ nz_out = None

\* reranker.rerank("q", rk_cands)
RerankCall ==
    /\ rk_out = None
    /\ \E res \in {Rerank(<<"q">>, rk_cands)} :
        /\ rk_out' = Some(res.out)
        /\ rk_embeds' = res.embeds
    /\ UNCHANGED <<rk_cands, nz_in, nz_out>>

\* Reranker._normalize(nz_in)
NormalizeCall ==
    /\ nz_out = None
    /\ nz_out' = Some(Normalize(nz_in))
    /\ UNCHANGED <<rk_cands, rk_out, rk_embeds, nz_in>>

-----------------------------------------------------------------------------
(* libs/chunking/text_chunker.py; offsets are Python's, counted from 0 *)

MaxTextLen == 4

MaxSize == 3

Max(a, b) == IF a > b THEN a ELSE b

\* text[a:b] for 0 <= a <= b <= len(text)
Substr(text, a, b) == SubSeq(text, a + 1, b)

\* the characters [\.!\?。！？；;] of SENTENCE_SPLIT_RE
IsPunct(c) == c \in {".", "?"}

\* \s, and what str.strip() removes
IsSpace(c) == c \in {" ", "\n"}

\* how many characters from offset p on are whitespace: greedy \s*
RECURSIVE SpaceRun(_, _)
SpaceRun(text, p) ==
    IF p < Len(text) /\ IsSpace(text[p + 1]) THEN 1 + SpaceRun(text, p + 1) ELSE 0

\* how many characters from offset p on are newlines: greedy \n+
RECURSIVE NewlineRun(_, _)
NewlineRun(text, p) ==
    IF p < Len(text) /\ text[p + 1] = "\n" THEN 1 + NewlineRun(text, p + 1) ELSE 0

\* SENTENCE_SPLIT_RE.finditer(text) from offset p on, as <<m.start(), m.end()>>;
\* must_advance: the match before ended at p and was empty, so a match at p
\* has to be non-empty
RECURSIVE FindIter(_, _, _)
FindIter(text, p, must_advance) ==
    IF p > Len(text) THEN <<>>
    ELSE IF /\ p > 0
            /\ IsPunct(text[p])
            /\ ~(must_advance /\ SpaceRun(text, p) = 0)
    THEN <<<<p, p + SpaceRun(text, p)>>>>
         \o FindIter(text, p + SpaceRun(text, p), SpaceRun(text, p) = 0)
    ELSE IF NewlineRun(text, p) > 0
    THEN <<<<p, p + NewlineRun(text, p)>>>>
         \o FindIter(text, p + NewlineRun(text, p), FALSE)
    ELSE FindIter(text, p + 1, FALSE)

\* text[a:b].strip()
RECURSIVE Strip(_)
Strip(seg) ==
    IF seg = <<>> THEN seg
    ELSE IF IsSpace(seg[1]) THEN Strip(Tail(seg))
    ELSE IF IsSpace(seg[Len(seg)]) THEN Strip(SubSeq(seg, 1, Len(seg) - 1))
    ELSE seg

\* text.find(seg, lo, hi) for a seg that occurs there
Find(text, seg, lo, hi) ==
    SetMin({p \in lo..(hi - Len(seg)) : Substr(text, p, p + Len(seg)) = seg})

\* lines 85-91 and 94-99: the span of the stripped text[last:end], if any
SpanOf(text, last, end) ==
    IF end > last /\ Strip(Substr(text, last, end)) # <<>>
    THEN <<[start |-> Find(text, Strip(Substr(text, last, end)), last, end),
            end   |-> Find(text, Strip(Substr(text, last, end)), last, end)
                      + Len(Strip(Substr(text, last, end)))]>>
    ELSE <<>>

\* lines 83-99: the for loop over the matches from the k-th on, then the tail
RECURSIVE SpansFrom(_, _, _, _)
SpansFrom(text, matches, k, last) ==
    IF k > Len(matches)
    THEN SpanOf(text, last, IF last < Len(text) THEN Len(text) ELSE last)
    ELSE SpanOf(text, last, matches[k][1])
         \o SpansFrom(text, matches, k + 1, matches[k][2])

\* TextChunker._split_sentences_with_spans(text)
SplitSentencesWithSpans(text) ==
    IF SpansFrom(text, FindIter(text, 0, FALSE), 1, 0) = <<>>
    THEN <<[start |-> 0, end |-> Len(text)]>>
    ELSE SpansFrom(text, FindIter(text, 0, FALSE), 1, 0)

\* lines 116-123: the last sentence packed into the chunk that starts with
\* sentence i; sentences are counted from 0, sentences[j + 1] is the j-th
RECURSIVE PackFrom(_, _, _, _)
PackFrom(sentences, start_span, j, size) ==
    IF j + 1 < Len(sentences) /\ sentences[j + 2].end - start_span <= size
    THEN PackFrom(sentences, start_span, j + 1, size)
    ELSE j

\* lines 143-147: the first sentence of i..j that starts at desired or later
OverlapIndex(sentences, i, j, desired_next_start) ==
    IF \E k \in i..j : sentences[k + 1].start >= desired_next_start
    THEN SetMin({k \in i..j : sentences[k + 1].start >= desired_next_start})
    ELSE j + 1

\* mutant: without the guard of lines 149-150
NextSentenceUnguarded(sentences, i, j, overlap) ==
    OverlapIndex(sentences, i, j,
                 Max(sentences[j + 1].end - overlap, sentences[i + 1].start))

\* lines 141-152: the sentence the next chunk starts with
NextSentence(sentences, i, j, overlap) ==
    Max(OverlapIndex(sentences, i, j,
                     Max(sentences[j + 1].end - overlap, sentences[i + 1].start)),
        i + 1)

\* Chunk(chunk_id, text, start, end, meta), meta left out
MkChunk(cid, text, start, end) ==
    [chunk_id |-> cid, text |-> Substr(text, start, end),
     start |-> start, end |-> end]

\* __init__ accepts the configuration (lines 36-41)
ValidConfig(strategy, size, overlap) ==
    /\ size > 0
    /\ overlap >= 0 /\ overlap < size
    /\ strategy \in {"char", "sentence"}

Chars == {"a", ".", " ", "\n"}

Texts == SeqsUpTo(Chars, MaxTextLen)

Chunkers ==
    {c \in [strategy : {"char", "sentence", "word"}, size : 0..MaxSize,
            overlap : 0..MaxSize] : ValidConfig(c.strategy, c.size, c.overlap)}

ChIdle ==
    /\ ch_self = <<>>
    /\ ch_text = <<>>
    /\ ch_sentences = <<>>
    /\ ch_chunks = <<>>
    /\ ch_cid = 0
    /\ ch_pos = 0
    /\ ch_pc = "idle"

ChunkInit ==
    /\ ch_self = <<>>
    /\ ch_text = <<>>
    /\ ch_sentences = <<>>
    /\ ch_chunks = <<>>
    /\ ch_cid = 0
    /\ ch_pos = 0
    /\ ch_pc = "new"

\* TextChunker(strategy, size, overlap) with arguments that __init__ accepts
ChunkerNew ==
    /\ ch_pc = "new"
    /\ \E c \in Chunkers : ch_self' = c
    /\ ch_pc' = "call"
    /\ UNCHANGED <<ch_text, ch_sentences, ch_chunks, ch_cid, ch_pos>>

\* chunk(text), lines 48-55, up to the first test of the strategy's loop
ChunkCall ==
    /\ ch_pc = "call"
    /\ \E text \in Texts :
        /\ ch_text' = text
        /\ ch_pc' = IF text = <<>> THEN "returned" ELSE ch_self.strategy
        /\ ch_sentences' = IF text # <<>> /\ ch_self.strategy = "sentence"
                           THEN SplitSentencesWithSpans(text) ELSE <<>>
    /\ UNCHANGED <<ch_self, ch_chunks, ch_cid, ch_pos>>

\* one round of the while loop of _chunk_by_char, lines 64-72
CharRound ==
    /\ ch_pc = "char"
    /\ \E end \in {Min(ch_pos + ch_self.size, Len(ch_text))} :
        /\ ch_chunks' = Append(ch_chunks, MkChunk(ch_cid, ch_text, ch_pos, end))
        /\ ch_cid' = ch_cid + 1
        /\ IF end = Len(ch_text)
           THEN ch_pc' = "returned" /\ ch_pos' = ch_pos
           ELSE /\ ch_pos' = end - ch_self.overlap
                /\ ch_pc' = IF end - ch_self.overlap < Len(ch_text)
                            THEN "char" ELSE "returned"
    /\ UNCHANGED <<ch_self, ch_text, ch_sentences>>

\* one round of the outer while loop of _chunk_by_sentence, lines 112-152
SentenceRound ==
    /\ ch_pc = "sentence"
    /\ \E j \in {PackFrom(ch_sentences, ch_sentences[ch_pos + 1].start, ch_pos,
                       ch_self.size)} :
        /\ ch_chunks' = Append(ch_chunks,
                               MkChunk(ch_cid, ch_text,
                                       ch_sentences[ch_pos + 1].start,
                                       ch_sentences[j + 1].end))
        /\ ch_cid' = ch_cid + 1
        /\ IF j = Len(ch_sentences) - 1
           THEN ch_pc' = "returned" /\ ch_pos' = ch_pos
           ELSE \E next_i \in {NextSentence(ch_sentences, ch_pos, j,
                                            ch_self.overlap)} :
                    /\ ch_pos' = next_i
                    /\ ch_pc' = IF next_i < Len(ch_sentences)
                                THEN "sentence" ELSE "returned"
    /\ UNCHANGED <<ch_self, ch_text, ch_sentences>>

-----------------------------------------------------------------------------
(* services/retriever/bm25_retriever.py: one BM25Retriever and the document
   store it reads *)

MaxDocs == 2

MaxSearches == 3

\* doc.split(): the maximal runs of non-whitespace characters
RECURSIVE SplitFrom(_, _, _)
SplitFrom(doc, i, word) ==
    IF i > Len(doc) THEN (IF word = <<>> THEN <<>> ELSE <<word>>)
    ELSE IF IsSpace(doc[i])
         THEN (IF word = <<>> THEN <<>> ELSE <<word>>) \o SplitFrom(doc, i + 1, <<>>)
         ELSE SplitFrom(doc, i + 1, Append(word, doc[i]))

Split(doc) == SplitFrom(doc, 1, <<>>)

\* lines 39-43: the meta.text of the rows that have one; NoneStr stands for a
\* row without meta or without text in it
RECURSIVE CorpusOf(_)
CorpusOf(rows) ==
    IF rows = <<>> THEN <<>>
    ELSE (IF Head(rows) = NoneStr THEN <<>> ELSE <<Head(rows)>>) \o CorpusOf(Tail(rows))

\* line 51
Tokenized(corpus) == [i \in 1..Len(corpus) |-> Split(corpus[i])]

\* BM25Okapi(tokenized) raises: rank_bm25 divides the sum of the idf values by
\* the number of distinct tokens, ZeroDivisionError when no document has one
Bm25OkapiRaises(tokenized) == \A i \in 1..Len(tokenized) : tokenized[i] = <<>>

\* _load_corpus when not yet initialized, the store being st: how it ends
LoadOutcome(st) ==
    IF ~st.up THEN "failed"
    ELSE IF CorpusOf(st.rows) = <<>> THEN "empty"
    ELSE IF Bm25OkapiRaises(Tokenized(CorpusOf(st.rows))) THEN "raised"
    ELSE "loaded"

\* lines 65-81: one result per document, best score first; the scores are the
\* library's, so any order may come out
Rankings(corpus) ==
    {perm \in [1..Len(corpus) -> 1..Len(corpus)] :
        \A i, j \in 1..Len(corpus) : i # j => perm[i] # perm[j]}

SearchResults(corpus, perm) ==
    Take([i \in 1..Len(corpus) |->
             [chunk_id |-> perm[i] - 1, score |-> "float", text |-> corpus[perm[i]]]],
         DefaultK)

\* texts of stored chunks: no token, one token
DocTexts == {<<" ">>, <<"w">>}

\* what fetch_all_documents can meet: an unreachable store, or its rows
Stores ==
    {[up |-> FALSE, rows |-> <<>>]}
    \cup {[up |-> TRUE, rows |-> rows] :
              rows \in SeqsUpTo({NoneStr} \cup DocTexts, MaxDocs)}

\* what a search() did
NoSearch == [kind |-> "none", results |-> <<>>]

Raised == [kind |-> "raised", results |-> <<>>]

Returned(results) == [kind |-> "returned", results |-> results]

BmIdle ==
    /\ bm_store = [up |-> FALSE, rows |-> <<>>]
    /\ bm_initialized = FALSE
    /\ bm_corpus = <<>>
    /\ bm_bm25 = None
    /\ bm_loads = 0
    /\ bm_first = "none"
    /\ bm_searches = 0
    /\ bm_last = NoSearch

\* BM25Retriever(), lines 20-24
Bm25Init ==
    /\ bm_store \in Stores
    /\ bm_initialized = FALSE
    /\ bm_corpus = <<>>
    /\ bm_bm25 = None
    /\ bm_loads = 0
    /\ bm_first = "none"
    /\ bm_searches = 0
    /\ bm_last = NoSearch

\* the store goes down, comes back, or its documents change
StoreChanges ==
    /\ \E st \in Stores : st # bm_store /\ bm_store' = st
    /\ UNCHANGED <<bm_initialized, bm_corpus, bm_bm25, bm_loads, bm_first,
                   bm_searches, bm_last>>

\* search(query, top_k) on a retriever that is not initialized: _load_corpus
\* runs first
SearchLoading ==
    /\ bm_searches < MaxSearches
    /\ ~bm_initialized
    /\ \E how \in {LoadOutcome(bm_store)} :
        /\ bm_loads' = bm_loads + 1
        /\ bm_first' = IF bm_first = "none" THEN how ELSE bm_first
        /\ bm_initialized' = (how # "raised")
        /\ bm_corpus' = IF how = "failed" THEN bm_corpus ELSE CorpusOf(bm_store.rows)
        /\ bm_bm25' = IF how = "loaded" THEN Some(Tokenized(CorpusOf(bm_store.rows)))
                      ELSE IF how = "raised" THEN bm_bm25 ELSE None
        /\ IF how = "raised" THEN bm_last' = Raised
           ELSE IF how = "loaded"
           THEN \E perm \in Rankings(CorpusOf(bm_store.rows)) :
                    bm_last' = Returned(SearchResults(CorpusOf(bm_store.rows), perm))
           ELSE bm_last' = Returned(<<>>)
    /\ bm_searches' = bm_searches + 1
    /\ UNCHANGED bm_store

\* search(query, top_k) on an initialized retriever
SearchLoaded ==
    /\ bm_searches < MaxSearches
    /\ bm_initialized
    /\ IF bm_bm25 = None THEN bm_last' = Returned(<<>>)
       ELSE \E perm \in Rankings(bm_corpus) :
                bm_last' = Returned(SearchResults(bm_corpus, perm))
    /\ bm_searches' = bm_searches + 1
    /\ UNCHANGED <<bm_store, bm_initialized, bm_corpus, bm_bm25, bm_loads, bm_first>>

-----------------------------------------------------------------------------
(* services/api_gateway/main.py: ingest, and
   services/embedding_worker/worker.py: process_document_incremental *)

\* /ingest calls made
MaxIngests == 2

\* ttl=24 * 3600
DedupTtl == 24 * 3600

\* h(s): hashlib.md5(s.encode("utf-8")).hexdigest(), one digest per text
Md5(s) == [md5 |-> s]

\* ck = f"chunk:{h(c.text)}"
ChunkKey(text) == [prefix |-> "chunk:", digest |-> Md5(text)]

\* chunker.chunk(text, meta=payload.metadata), given the texts of the chunks
ChunksOf(texts) == [i \in 1..Len(texts) |-> [chunk_id |-> i - 1, text |-> texts[i]]]

\* if query_cache.get(ck)
MarkerSeen(c, ck) ==
    GetResult(c, ck) # None /\ GetResult(c, ck)[1] = TRUE

\* mutant: a chunk not seen is taken as new and no marker is written
DedupRoundUnmarked(acc, chunk) ==
    IF MarkerSeen(acc.cache, ChunkKey(chunk.text))
    THEN [acc EXCEPT !.cache = GetEffect(@, ChunkKey(chunk.text)),
                     !.cached_flags = Append(@, TRUE)]
    ELSE [cache |-> GetEffect(acc.cache, ChunkKey(chunk.text)),
          cached_flags |-> Append(acc.cached_flags, FALSE),
          dedup_chunks |-> Append(acc.dedup_chunks, chunk)]

\* one round of the loop over chunks: get, and set for a chunk not seen
DedupRound(acc, chunk) ==
    IF MarkerSeen(acc.cache, ChunkKey(chunk.text))
    THEN [acc EXCEPT !.cache = GetEffect(@, ChunkKey(chunk.text)),
                     !.cached_flags = Append(@, TRUE)]
    ELSE [cache |-> SetEffect(GetEffect(acc.cache, ChunkKey(chunk.text)),
                              ChunkKey(chunk.text), Some(TRUE), DedupTtl),
          cached_flags |-> Append(acc.cached_flags, FALSE),
          dedup_chunks |-> Append(acc.dedup_chunks, chunk)]

RECURSIVE DedupFrom(_, _, _)
\* for c in chunks, from the i-th chunk on
DedupFrom(acc, chunks, i) ==
    IF i > Len(chunks) THEN acc
    ELSE DedupFrom(DedupRound(acc, chunks[i]), chunks, i + 1)

\* cached_flags, dedup_chunks and the cache after the loop
Dedup(c, chunks) ==
    DedupFrom([cache |-> c, cached_flags |-> <<>>, dedup_chunks |-> <<>>],
              chunks, 1)

\* where process_document_incremental raises, if it does
WorkerFailures == {"none", "embed_batch", "insert"}

\* the rows collection.insert(data) adds
NewRows(doc_id, chunks) ==
    {[doc_id |-> doc_id, chunk_id |-> chunks[i].chunk_id, text |-> chunks[i].text] :
        i \in 1..Len(chunks)}

\* process_document_incremental: the collection it leaves and what it returns
ProcessDocumentIncremental(rows, doc_id, chunks, fails) ==
    IF Len(chunks) = 0
    THEN [rows |-> rows, status |-> "returned", inserted |-> 0]
    ELSE IF fails = "embed_batch"
    THEN [rows |-> rows, status |-> "embed_batch raised", inserted |-> 0]
    ELSE IF fails = "insert"
    THEN [rows |-> rows, status |-> "insert raised", inserted |-> 0]
    ELSE [rows |-> rows \cup NewRows(doc_id, chunks), status |-> "returned",
          inserted |-> Len(chunks)]

\* the chunk texts of the documents sent to /ingest
IngestTexts == {<<>>, <<"a">>, <<"a", "a">>, <<"a", "b">>}

\* the texts of a list of chunks
TextsOf(chunks) == [i \in 1..Len(chunks) |-> chunks[i].text]

IngIdle == ing_rows = {} /\ ing_hist = <<>>

\* the collection is empty and no /ingest call was made
IngestInit == ing_rows = {} /\ ing_hist = <<>>

\* POST /ingest?dry_run=true: the chunks are counted, nothing is stored
IngestDryRun ==
    /\ Len(ing_hist) < MaxIngests
    /\ \E texts \in IngestTexts :
        ing_hist' = Append(ing_hist,
            [dry_run |-> TRUE, texts |-> texts, at |-> now,
             redis_up |-> redis_up, new |-> <<>>,
             code |-> 200, status |-> "dry run",
             preview_chunks |-> Len(ChunksOf(texts))])
    /\ UNCHANGED <<ing_rows, cacheVars>>

\* POST /ingest?dry_run=false with a text
Ingest ==
    /\ Len(ing_hist) < MaxIngests
    /\ \E texts \in IngestTexts, fails \in WorkerFailures :
       \E d \in {Dedup(TheCache, ChunksOf(texts))} :
       \E w \in {ProcessDocumentIncremental(ing_rows, Len(ing_hist) + 1,
                                            d.dedup_chunks, fails)} :
        /\ CacheBecomes(d.cache)
        /\ ing_rows' = w.rows
        /\ ing_hist' = Append(ing_hist,
            [dry_run |-> FALSE, texts |-> texts, at |-> now,
             redis_up |-> redis_up,
             new |-> TextsOf(d.dedup_chunks),
             code |-> IF w.status = "returned" THEN 200 ELSE 500,
             status |-> w.status, preview_chunks |-> w.inserted])
    /\ UNCHANGED <<last_set, last_get>>

\* time passes: the lifetime of a marker, or a moment more than that
IngestWait ==
    /\ now < MaxTime
    /\ \E d \in {DedupTtl, DedupTtl + 1} : now' = now + d
    /\ UNCHANGED <<use_redis, redis_up, redis_data, store, expire, last_set,
                   last_get>>

-----------------------------------------------------------------------------
(* Specifications *)

KeyIdle == key_args = <<>> /\ key_out = <<>> /\ key_pc = 0

CacheIdle ==
    /\ use_redis = FALSE
    /\ redis_up = FALSE
    /\ redis_data = EmptyDict
    /\ store = EmptyDict
    /\ expire = EmptyDict
    /\ now = 0
    /\ last_set = EmptyDict
    /\ last_get = None

\* rrf_fuse on every pair of hit lists within the bounds
InitRRF == RrfInit /\ KeyIdle /\ CacheIdle /\ GwIdle /\ LockIdle /\ HyIdle /\ RkIdle /\ ChIdle /\ BmIdle /\ IngIdle

NextRRF ==
    \/ RrfAddVector /\ UNCHANGED <<keyVars, cacheVars, gwVars, lockVars, hyVars, rkVars, chVars, bmVars, ingVars>>
    \/ RrfAddBm25 /\ UNCHANGED <<keyVars, cacheVars, gwVars, lockVars, hyVars, rkVars, chVars, bmVars, ingVars>>
    \/ RrfSortReturn /\ UNCHANGED <<keyVars, cacheVars, gwVars, lockVars, hyVars, rkVars, chVars, bmVars, ingVars>>

SpecRRF == InitRRF /\ [][NextRRF]_vars

\* rrf_fuse on hit lists that vary in raw score, doc_id and text
InitFuse == FuseInit /\ KeyIdle /\ CacheIdle /\ GwIdle /\ LockIdle /\ HyIdle /\ RkIdle /\ ChIdle /\ BmIdle /\ IngIdle

SpecFuse == InitFuse /\ [][NextRRF]_vars

\* QueryCache.make_key called twice on any two parameter tuples
InitKey == RrfIdle /\ KeyInit /\ CacheIdle /\ GwIdle /\ LockIdle /\ HyIdle /\ RkIdle /\ ChIdle /\ BmIdle /\ IngIdle

NextKey == MakeKeyCall /\ UNCHANGED <<rrfVars, cacheVars, gwVars, lockVars, hyVars, rkVars, chVars, bmVars, ingVars>>

SpecKey == InitKey /\ [][NextKey]_vars

\* a QueryCache under any sequence of get, set, clock ticks and Redis outages
InitCache == RrfIdle /\ KeyIdle /\ CacheInit /\ GwIdle /\ LockIdle /\ HyIdle /\ RkIdle /\ ChIdle /\ BmIdle /\ IngIdle

NextCache ==
    \/ CacheSet /\ UNCHANGED <<rrfVars, keyVars, gwVars, lockVars, hyVars, rkVars, chVars, bmVars, ingVars>>
    \/ CacheGet /\ UNCHANGED <<rrfVars, keyVars, gwVars, lockVars, hyVars, rkVars, chVars, bmVars, ingVars>>
    \/ Tick /\ UNCHANGED <<rrfVars, keyVars, gwVars, lockVars, hyVars, rkVars, chVars, bmVars, ingVars>>
    \/ RedisFail /\ UNCHANGED <<rrfVars, keyVars, gwVars, lockVars, hyVars, rkVars, chVars, bmVars, ingVars>>
    \/ RedisRecover /\ UNCHANGED <<rrfVars, keyVars, gwVars, lockVars, hyVars, rkVars, chVars, bmVars, ingVars>>

SpecCache == InitCache /\ [][NextCache]_vars

\* the gateway answering /query requests while time passes and Redis comes and goes
InitGateway == RrfIdle /\ KeyIdle /\ CacheInit /\ GwIdle /\ LockIdle /\ HyIdle /\ RkIdle /\ ChIdle /\ BmIdle /\ IngIdle

NextGateway ==
    \/ QueryRequest /\ UNCHANGED <<rrfVars, keyVars, lockVars, hyVars, rkVars, chVars, bmVars, ingVars>>
    \/ Wait /\ UNCHANGED <<rrfVars, keyVars, gwVars, lockVars, hyVars, rkVars, chVars, bmVars, ingVars>>
    \/ RedisFail /\ UNCHANGED <<rrfVars, keyVars, gwVars, lockVars, hyVars, rkVars, chVars, bmVars, ingVars>>
    \/ RedisRecover /\ UNCHANGED <<rrfVars, keyVars, gwVars, lockVars, hyVars, rkVars, chVars, bmVars, ingVars>>

SpecGateway == InitGateway /\ [][NextGateway]_vars

\* threads calling get and set of one cache in fallback mode while time passes
InitLock == RrfIdle /\ KeyIdle /\ CacheIdle /\ GwIdle /\ LockInit /\ HyIdle /\ RkIdle /\ ChIdle /\ BmIdle /\ IngIdle

NextLock ==
    \/ \E t \in Threads : BeginGet(t) /\ UNCHANGED <<rrfVars, keyVars, gwVars, hyVars, rkVars, chVars, bmVars, ingVars>>
    \/ \E t \in Threads : BeginSet(t) /\ UNCHANGED <<rrfVars, keyVars, gwVars, hyVars, rkVars, chVars, bmVars, ingVars>>
    \/ \E t \in Threads : Acquire(t) /\ UNCHANGED <<rrfVars, keyVars, gwVars, hyVars, rkVars, chVars, bmVars, ingVars>>
    \/ \E t \in Threads : GetCheck(t) /\ UNCHANGED <<rrfVars, keyVars, gwVars, hyVars, rkVars, chVars, bmVars, ingVars>>
    \/ \E t \in Threads : GetPopStore(t) /\ UNCHANGED <<rrfVars, keyVars, gwVars, hyVars, rkVars, chVars, bmVars, ingVars>>
    \/ \E t \in Threads : GetPopExpire(t) /\ UNCHANGED <<rrfVars, keyVars, gwVars, hyVars, rkVars, chVars, bmVars, ingVars>>
    \/ \E t \in Threads : GetReturn(t) /\ UNCHANGED <<rrfVars, keyVars, gwVars, hyVars, rkVars, chVars, bmVars, ingVars>>
    \/ \E t \in Threads : SetWriteStore(t) /\ UNCHANGED <<rrfVars, keyVars, gwVars, hyVars, rkVars, chVars, bmVars, ingVars>>
    \/ \E t \in Threads : SetWriteExpire(t) /\ UNCHANGED <<rrfVars, keyVars, gwVars, hyVars, rkVars, chVars, bmVars, ingVars>>
    \/ Tick /\ UNCHANGED <<rrfVars, keyVars, gwVars, lockVars, hyVars, rkVars, chVars, bmVars, ingVars>>

SpecLock == InitLock /\ [][NextLock]_vars

\* HybridRetriever.search on every argument tuple within the bounds, page by page
\* and direct calls of the reranker
InitHybrid == RrfIdle /\ KeyIdle /\ CacheIdle /\ GwIdle /\ LockIdle /\ HyInit /\ RerankInitSmall /\ ChIdle /\ BmIdle /\ IngIdle

NextHybrid ==
    \/ SearchPage /\ UNCHANGED <<rrfVars, keyVars, cacheVars, gwVars, lockVars, rkVars, chVars, bmVars, ingVars>>
    \/ RerankCall /\ UNCHANGED <<rrfVars, keyVars, cacheVars, gwVars, lockVars, hyVars, chVars, bmVars, ingVars>>

SpecHybrid == InitHybrid /\ [][NextHybrid]_vars

\* Reranker.rerank on every candidate list within the bounds
InitRerank == RrfIdle /\ KeyIdle /\ CacheIdle /\ GwIdle /\ LockIdle /\ HyIdle /\ RerankInit /\ ChIdle /\ BmIdle /\ IngIdle

NextRerank == RerankCall /\ UNCHANGED <<rrfVars, keyVars, cacheVars, gwVars, lockVars, hyVars, chVars, bmVars, ingVars>>

SpecRerank == InitRerank /\ [][NextRerank]_vars

\* Reranker._normalize on every series within the bounds
InitNormalize == RrfIdle /\ KeyIdle /\ CacheIdle /\ GwIdle /\ LockIdle /\ HyIdle /\ NormalizeInit /\ ChIdle /\ BmIdle /\ IngIdle

NextNormalize == NormalizeCall /\ UNCHANGED <<rrfVars, keyVars, cacheVars, gwVars, lockVars, hyVars, chVars, bmVars, ingVars>>

SpecNormalize == InitNormalize /\ [][NextNormalize]_vars

\* TextChunker.chunk on every chunker and text within the bounds
InitChunk == RrfIdle /\ KeyIdle /\ CacheIdle /\ GwIdle /\ LockIdle /\ HyIdle /\ RkIdle /\ ChunkInit /\ BmIdle /\ IngIdle

NextChunk ==
    \/ ChunkerNew /\ UNCHANGED <<rrfVars, keyVars, cacheVars, gwVars, lockVars, hyVars, rkVars, bmVars, ingVars>>
    \/ ChunkCall /\ UNCHANGED <<rrfVars, keyVars, cacheVars, gwVars, lockVars, hyVars, rkVars, bmVars, ingVars>>
    \/ CharRound /\ UNCHANGED <<rrfVars, keyVars, cacheVars, gwVars, lockVars, hyVars, rkVars, bmVars, ingVars>>
    \/ SentenceRound /\ UNCHANGED <<rrfVars, keyVars, cacheVars, gwVars, lockVars, hyVars, rkVars, bmVars, ingVars>>

SpecChunk == InitChunk /\ [][NextChunk]_vars

\* the thread that runs chunk() keeps running
SpecChunkLive == SpecChunk /\ WF_vars(NextChunk)

\* searches on one BM25Retriever while the document store changes
InitBm25 == RrfIdle /\ KeyIdle /\ CacheIdle /\ GwIdle /\ LockIdle /\ HyIdle /\ RkIdle /\ ChIdle /\ Bm25Init /\ IngIdle

NextBm25 ==
    \/ StoreChanges /\ UNCHANGED <<rrfVars, keyVars, cacheVars, gwVars, lockVars, hyVars, rkVars, chVars, ingVars>>
    \/ SearchLoading /\ UNCHANGED <<rrfVars, keyVars, cacheVars, gwVars, lockVars, hyVars, rkVars, chVars, ingVars>>
    \/ SearchLoaded /\ UNCHANGED <<rrfVars, keyVars, cacheVars, gwVars, lockVars, hyVars, rkVars, chVars, ingVars>>

SpecBm25 == InitBm25 /\ [][NextBm25]_vars

\* /ingest calls while time passes and Redis comes and goes
InitIngest == RrfIdle /\ KeyIdle /\ CacheInit /\ GwIdle /\ LockIdle /\ HyIdle /\ RkIdle /\ ChIdle /\ BmIdle /\ IngestInit

NextIngest ==
    \/ Ingest /\ UNCHANGED <<rrfVars, keyVars, gwVars, lockVars, hyVars, rkVars, chVars, bmVars>>
    \/ IngestDryRun /\ UNCHANGED <<rrfVars, keyVars, gwVars, lockVars, hyVars, rkVars, chVars, bmVars>>
    \/ IngestWait /\ UNCHANGED <<rrfVars, keyVars, gwVars, lockVars, hyVars, rkVars, chVars, bmVars, ingVars>>
    \/ RedisFail /\ UNCHANGED <<rrfVars, keyVars, gwVars, lockVars, hyVars, rkVars, chVars, bmVars, ingVars>>
    \/ RedisRecover /\ UNCHANGED <<rrfVars, keyVars, gwVars, lockVars, hyVars, rkVars, chVars, bmVars, ingVars>>

SpecIngest == InitIngest /\ [][NextIngest]_vars

-----------------------------------------------------------------------------
(* Properties of rrf_fuse *)

RrfReturned == rrf_pc = "returned"

VecRanks == 1..Len(vector_results)

BmRanks == 1..Len(bm25_results)

\* the (doc_id, chunk_id) pair of a hit or of a fused entry
PairOf(h) == <<h.doc_id, h.chunk_id>>

InputPairs == {PairOf(vector_results[i]) : i \in VecRanks}
              \cup {PairOf(bm25_results[i]) : i \in BmRanks}

\* how many input hits carry the pair p
HitsWithPair(p) ==
    Cardinality({i \in VecRanks : PairOf(vector_results[i]) = p})
    + Cardinality({i \in BmRanks : PairOf(bm25_results[i]) = p})

\* how many fused entries carry the pair p
EntriesWithPair(p) ==
    Cardinality({i \in 1..Len(fused_list) : PairOf(fused_list[i]) = p})

C2_SortedDescending ==
    RrfReturned =>
        \A i \in 1..Len(fused_list) - 1 :
            fused_list[i].rrf_score >= fused_list[i + 1].rrf_score

\* the sort moved something: insertion order was not descending
C2_Witness ==
    /\ RrfReturned
    /\ Len(fused_list) >= 2
    /\ fused_list # fused
    /\ fused_list[1].rrf_score > fused_list[Len(fused_list)].rrf_score

\* 1/(k + r) as an exact multiple of 1/ScoreScale, from the definition of RRF
Reciprocal(r) == ScoreScale \div (RrfK + r)

\* sum of 1/(k + r) over the input hits whose identity key is key
ExpectedRrf(key) ==
    SetSum([r \in VecRanks |-> Reciprocal(r)],
           {r \in VecRanks : BuildKey(vector_results[r], "vector", r) = key})
    + SetSum([r \in BmRanks |-> Reciprocal(r)],
             {r \in BmRanks : BuildKey(bm25_results[r], "bm25", r) = key})

\* C3: the rrf_score of every fused entry is the sum of 1/(k + r) over every
\* input hit, of either source and at 1-indexed rank r in its own list, whose
\* identity key is the entry's.
C3_RrfScoreIsSumOfReciprocalRanks ==
    RrfReturned =>
        \A i \in 1..Len(fused_list) :
            fused_list[i].rrf_score = ExpectedRrf(fused_list[i].key)

\* an entry hit by the vector list at rank r1 and by the lexical list at rank r2
C3_Witness ==
    /\ RrfReturned
    /\ \E i \in 1..Len(fused_list), r1 \in VecRanks, r2 \in BmRanks :
          /\ r1 # r2
          /\ fused_list[i].sources = <<"vector", "bm25">>
          /\ fused_list[i].rrf_score = Reciprocal(r1) + Reciprocal(r2)

\* input hits (source, rank) without and with a chunk_id
HitsLackingChunk ==
    ({"vector"} \X {r \in VecRanks : vector_results[r].chunk_id = NoChunk})
    \cup ({"bm25"} \X {r \in BmRanks : bm25_results[r].chunk_id = NoChunk})

\* the distinct doc_id::chunk_id identities among the hits that have a chunk_id
IdentitiesWithChunk ==
    {<<Or(vector_results[r].doc_id, <<>>), vector_results[r].chunk_id>> :
        r \in {x \in VecRanks : vector_results[x].chunk_id # NoChunk}}
    \cup
    {<<Or(bm25_results[r].doc_id, <<>>), bm25_results[r].chunk_id>> :
        r \in {x \in BmRanks : bm25_results[x].chunk_id # NoChunk}}

InputHit(h) == IF h[1] = "vector" THEN vector_results[h[2]] ELSE bm25_results[h[2]]

CreatedByVector(key) ==
    \E r \in VecRanks : BuildKey(vector_results[r], "vector", r) = key

\* rank at which the key was first met in the list that created its entry
FirstRank(key) ==
    IF CreatedByVector(key)
    THEN CHOOSE r \in VecRanks :
            /\ BuildKey(vector_results[r], "vector", r) = key
            /\ \A q \in 1..(r - 1) : BuildKey(vector_results[q], "vector", q) # key
    ELSE CHOOSE r \in BmRanks :
            /\ BuildKey(bm25_results[r], "bm25", r) = key
            /\ \A q \in 1..(r - 1) : BuildKey(bm25_results[q], "bm25", q) # key

\* a was inserted into the dict before b
CreatedBefore(a, b) ==
    \/ CreatedByVector(a) /\ ~CreatedByVector(b)
    \/ /\ CreatedByVector(a) = CreatedByVector(b)
       /\ FirstRank(a) < FirstRank(b)

\* C5: fused entries of equal rrf_score are returned in insertion order:
\* entries created from vector hits, in vector rank order, before entries
\* created from lexical hits, in lexical arrival order.
C5_TiesInInsertionOrder ==
    RrfReturned =>
        \A i, j \in 1..Len(fused_list) :
            (i < j /\ fused_list[i].rrf_score = fused_list[j].rrf_score)
                => CreatedBefore(fused_list[i].key, fused_list[j].key)

\* a rank-1 vector hit and a rank-1 lexical-only hit tie, vector first
C5_Witness ==
    /\ RrfReturned
    /\ \E i, j \in 1..Len(fused_list) :
          /\ i < j
          /\ fused_list[i].sources = <<"vector">>
          /\ fused_list[j].sources = <<"bm25">>
          /\ fused_list[i].rrf_score = Reciprocal(1)
          /\ fused_list[j].rrf_score = Reciprocal(1)

-----------------------------------------------------------------------------
(* Properties of QueryCache.make_key *)

\* C6: make_key is deterministic and injective on its 8 parameters: equal
\* tuples give equal keys, and tuples that differ in any field (a query text
\* that differs only in case or contains '|' included) give different pre-hash
\* strings and, the hash taken as injective, different keys.
C6_MakeKeyDeterministicInjective ==
    key_pc = 2 =>
        /\ (key_args[1] = key_args[2]) <=> (key_out[1].raw = key_out[2].raw)
        /\ (key_args[1] = key_args[2]) <=> (key_out[1].key = key_out[2].key)

\* two calls whose query texts differ only in case, or of which one is the
\* separator itself, got different keys
C6_Witness ==
    /\ key_pc = 2
    /\ key_args[1].q = <<"a">>
    /\ key_args[2].q \in {<<"A">>, <<"|">>}
    /\ [key_args[1] EXCEPT !.q = <<>>] = [key_args[2] EXCEPT !.q = <<>>]
    /\ key_out[1].key # key_out[2].key

-----------------------------------------------------------------------------
(* Properties of QueryCache *)

\* C7: in fallback (in-memory) mode, a get(key) that follows set(key, value,
\* ttl) with no later set on the key returns the value if issued before the
\* TTL has elapsed and None if issued after it has elapsed.
C7_FallbackTtlExpiry ==
    (~use_redis /\ last_get # None /\ last_get[1].since # None) =>
        LET g == last_get[1]
            s == g.since[1]
        IN  /\ g.at < s.at + s.ttl => g.result = Some(s.value)
            /\ g.at > s.at + s.ttl => g.result = None

\* a get issued after the TTL returned None and evicted the key
C7_Witness ==
    /\ ~use_redis
    /\ last_get # None
    /\ last_get[1].since # None
    /\ last_get[1].at > last_get[1].since[1].at + last_get[1].since[1].ttl
    /\ last_get[1].result = None
    /\ last_get[1].key \notin DOMAIN store
    /\ \E k \in DOMAIN store : TRUE

-----------------------------------------------------------------------------
(* Properties of query_endpoint *)

\* the last request called the vector retriever, which raised, and the
\* gateway's lexical search succeeded
VectorRaisedLexicalOk ==
    /\ calls # None
    /\ calls[1].vector = "raise"
    /\ calls[1].bm25_fallback = "ok"

\* the degradation marks of a response
MarkedDegraded(response) ==
    /\ response.status = "ok"
    /\ response.degraded = TRUE
    /\ response.degraded_mode = Some("bm25_only")
    /\ response.degraded_reason # None
    /\ \A i \in 1..Len(response.results) : response.results[i].sources = <<"bm25">>

\* C8 as stated: whenever the vector retriever raises during a /query request,
\* hybrid or not, and the lexical retriever succeeds, the response is
\* successful with degraded=true, degraded_mode="bm25_only", a degraded_reason,
\* only results with sources=["bm25"], and a vector latency of zero.
C8_DegradedWithZeroVectorLatency ==
    VectorRaisedLexicalOk =>
        /\ MarkedDegraded(resp)
        /\ "vector" \in DOMAIN resp.latency_ms
        /\ resp.latency_ms["vector"] = 0

\* C8 amended: ... and no measured vector latency: latency_ms.vector is zero
\* when hybrid=false and latency_ms has no vector entry when hybrid=true.
C8_DegradedWithoutVectorLatency ==
    VectorRaisedLexicalOk =>
        /\ MarkedDegraded(resp)
        /\ IF req.hybrid
           THEN "vector" \notin DOMAIN resp.latency_ms
           ELSE resp.latency_ms["vector"] = 0

\* a hybrid request whose vector search raised was answered from BM25, the
\* lexical search having taken measurable time
C8_Witness ==
    /\ VectorRaisedLexicalOk
    /\ req.hybrid
    /\ resp.results # <<>>
    /\ resp.degraded
    /\ resp.latency_ms["bm25"] > 0

\* C9: a /query request during which the vector search failed never returns a
\* response with degraded=false; in particular the failure is never returned
\* as an ordinary vector result record under milvus_ok=true.
C9_VectorFailureAlwaysDegrades ==
    (calls # None /\ calls[1].vector \in {"raise", "search_error"}
        /\ resp.status = "ok")
        => /\ resp.degraded = TRUE
           /\ ~(resp.milvus_ok /\ \E i \in 1..Len(resp.results) :
                                      resp.results[i].error # NoneStr)

\* every payload the response cache holds
CachedPayloads ==
    {JsonLoads(redis_data[k].val) : k \in DOMAIN redis_data}
    \cup {store[k] : k \in DOMAIN store}

\* C10: a /query request whose response has degraded=true leaves the response
\* cache unchanged, and no entry of the response cache has degraded=true.
C10_DegradedNeverCached ==
    /\ (resp.status = "ok" /\ resp.degraded)
          => /\ written = None
             /\ calls[1].cache_set = FALSE
             /\ cache_before = Some(CacheContents(TheCache))
    /\ \A payload \in CachedPayloads : payload.degraded = FALSE

\* a degraded response that only the degraded flag kept out of the cache:
\* not a debug request, a cache key, results, and a reachable shared store
C10_Witness ==
    /\ resp.status = "ok"
    /\ resp.degraded
    /\ ~req.debug
    /\ calls[1].cache_get
    /\ resp.results # <<>>
    /\ redis_up
    /\ CachedPayloads # {}

\* the last request was not a debug request, was answered, and the shared
\* cache backend was unreachable while it ran
AnsweredWithoutSharedBackend ==
    /\ calls # None
    /\ ~calls[1].redis_up
    /\ ~req.debug
    /\ resp.status = "ok"

\* the local store held a live entry for the request's key when it arrived
LocalEntryWasLive ==
    /\ RequestKey(req) \in DOMAIN cache_before[1].store
    /\ ~(calls[1].at > cache_before[1].expire[RequestKey(req)])

\* C11: when the shared cache backend is unavailable, a non-debug, non-degraded
\* response with results is written to the local fallback store, and a request
\* whose key has a live entry there is answered from it with cache_hit=true.
C11_UnavailableBackendUsesFallbackStore ==
    AnsweredWithoutSharedBackend =>
        /\ (~resp.cache_hit /\ ~resp.degraded /\ resp.results # <<>>)
              => /\ RequestKey(req) \in DOMAIN store
                 /\ store[RequestKey(req)] = resp
        /\ LocalEntryWasLive => resp.cache_hit

-----------------------------------------------------------------------------
(* Properties of QueryCache under Redis outages *)

\* a set(k, value, ttl) with a value has just returned
SetReturned(k) ==
    /\ k \in DOMAIN last_set'
    /\ k \notin DOMAIN last_set \/ last_set'[k] # last_set[k]

\* C12: a set() never changes the shared-backend flag, whatever happened to
\* earlier writes; with the flag set, a set() issued while Redis answers is
\* stored in Redis, and one issued while Redis fails is stored locally.
C12_FailedSharedWriteDoesNotDisable ==
    [][\A k \in CacheKeys :
          SetReturned(k) =>
              /\ use_redis' = use_redis
              /\ (use_redis /\ redis_up) =>
                    /\ k \in DOMAIN redis_data'
                    /\ JsonLoads(redis_data'[k].val) = last_set'[k].value
                    /\ redis_data'[k].exp = now + last_set'[k].ttl
              /\ (use_redis /\ ~redis_up) =>
                    /\ k \in DOMAIN store'
                    /\ store'[k] = last_set'[k].value]_vars

\* a write that failed over to the local store was followed, after Redis came
\* back, by a write that reached Redis
C12_Witness ==
    /\ use_redis
    /\ \E k1, k2 \in CacheKeys :
          /\ k1 \in DOMAIN last_set
          /\ k2 \in DOMAIN last_set
          /\ last_set[k1].target = "memory"
          /\ k1 \in DOMAIN store
          /\ last_set[k2].target = "redis"
          /\ last_set[k2].at > last_set[k1].at
          /\ k2 \in DOMAIN redis_data
          /\ redis_data[k2].exp = last_set[k2].at + last_set[k2].ttl

\* C13: a value that set(key, v, ttl) stored while the shared store was
\* failing (so that it went to the local store) is returned by a get(key)
\* issued before the TTL elapses, whether Redis is failing or not at the get.
C13_FailedOverValueIsReadBack ==
    (/\ last_get # None
     /\ last_get[1].since # None
     /\ last_get[1].since[1].target = "memory"
     /\ last_get[1].at < last_get[1].since[1].at + last_get[1].since[1].ttl)
        => last_get[1].result = Some(last_get[1].since[1].value)

\* cache operations issued now are served by Redis
ServedByRedis ==
    /\ redis_up
    /\ \A v \in CacheValues, ttl \in Ttls : SetTarget(TheCache, Some(v), ttl) = "redis"

\* C14: after any sequence of outages, recoveries and cache operations,
\* is_redis_available() returns true exactly when Redis is reachable and serving
\* the cache operations, and false when the local store serves them.
C14_AvailabilityReportsCurrentBackend ==
    IsRedisAvailable(TheCache) <=> ServedByRedis

-----------------------------------------------------------------------------
(* Properties of the lock around the local store *)

\* C15: access to the local store is mutually exclusive: no two calls are
\* between their `with self._lock` and their return at once, and a get() that
\* found its key expired evicts the very entry it checked: no set() of the key
\* completes between its check and its eviction.
C15_LocalStoreAccessIsExclusive ==
    /\ \A t1, t2 \in Threads : (InCritical(t1) /\ InCritical(t2)) => t1 = t2
    /\ \A t \in Threads :
          thr[t].pc \in {"pop_store", "pop_expire"} =>
              /\ thr[t].key \in DOMAIN expire
              /\ thr[t].seen = Some(expire[thr[t].key])
              /\ now > expire[thr[t].key]

\* a get() is about to evict an expired entry while a set() of the same key
\* waits for the lock
C15_Witness ==
    \E t1, t2 \in Threads :
        /\ thr[t1].pc = "pop_store"
        /\ thr[t2].pc = "acquire_set"
        /\ thr[t2].key = thr[t1].key
        /\ locked

-----------------------------------------------------------------------------
(* Further properties of query_endpoint *)

\* C16: a /query request with debug=true neither reads nor writes the cache,
\* whatever the cache holds: the retrieval runs, cache_hit is false and the
\* cache is left as it was found.
C16_DebugBypassesCache ==
    (calls # None /\ req.debug) =>
        /\ ~calls[1].cache_get
        /\ ~calls[1].cache_set
        /\ written = None
        /\ calls[1].vector # "not_called"
        /\ resp.status = "ok" => resp.cache_hit = FALSE
        /\ cache_before = Some(CacheContents(TheCache))

\* a debug request was answered afresh although Redis, reachable, held a live
\* entry under the key of its parameters
C16_Witness ==
    /\ calls # None
    /\ req.debug
    /\ use_redis
    /\ calls[1].redis_up
    /\ RequestKey(req) \in DOMAIN redis_data
    /\ ~(calls[1].at > redis_data[RequestKey(req)].exp)
    /\ resp.status = "ok"
    /\ resp.results # <<>>
    /\ ~resp.degraded

\* the vector search of the last request failed
VectorFailed == calls[1].vector \in {"raise", "search_error"}

\* a lexical search of the last request failed
LexicalFailed ==
    calls[1].bm25_inner = "raise" \/ calls[1].bm25_fallback = "raise"

\* C17: /query answers with an error only if both the vector and the lexical
\* backend failed during the request; if exactly one of them failed (the
\* lexical search raising in hybrid mode while the vector search succeeded
\* included), the response is a successful degraded one.
C17_OnlyTotalFailureIsAnError ==
    calls # None =>
        /\ resp.status = "error" => (VectorFailed /\ LexicalFailed)
        /\ (VectorFailed # LexicalFailed)
              => (resp.status = "ok" /\ resp.degraded)

-----------------------------------------------------------------------------
(* Properties of HybridRetriever.search and of the hybrid response *)

\* the page the last call asked for, and the 0-based index its page starts at
HyPage == Len(hy_pages)

HyStart == (HyPage - 1) * hy_args.page_size

\* C18: in a non-degraded hybrid /query response (top_k >= 1 as the gateway
\* requires), results is exactly the final_results of HybridRetriever.search
\* for the requested page: empty when the page starts beyond the candidate
\* window, never longer than page_size, never an entry outside the window.
C18_ResultsAreTheRequestedPage ==
    (hy_resp # None /\ hy_args.top_k >= 1) =>
        /\ hy_resp[1].results = hy_res[1].final_results
        /\ Len(hy_resp[1].results) <= hy_args.page_size
        /\ HyStart >= hy_res[1].pagination.total => hy_resp[1].results = <<>>

\* the candidate window, from the definition: the first top_k entries of the
\* returned fused list, or all of them if top_k <= 0
ExpectedWindowSize ==
    IF hy_args.top_k > 0 /\ hy_args.top_k < Len(hy_res[1].fused_results)
    THEN hy_args.top_k
    ELSE Len(hy_res[1].fused_results)

ExpectedWindow ==
    [i \in 1..ExpectedWindowSize |-> hy_res[1].fused_results[i]]

\* the window the pages are cut from: reranked if asked for and not empty
PagedWindow ==
    IF hy_args.rerank /\ ExpectedWindow # <<>>
    THEN RerankerOut(ExpectedWindow, hy_args.order)
    ELSE ExpectedWindow

RECURSIVE ConcatPages(_)
ConcatPages(pages) ==
    IF pages = <<>> THEN <<>>
    ELSE ConcatPages(SubSeq(pages, 1, Len(pages) - 1)) \o pages[Len(pages)]

\* number of window entries fetched by the pages so far
FetchedSoFar ==
    IF Len(hy_pages) * hy_args.page_size < Len(PagedWindow)
    THEN Len(hy_pages) * hy_args.page_size
    ELSE Len(PagedWindow)

\* C19: for every page >= 1 and page_size >= 1, final_results is the window
\* entries with 0-based index from (page-1)*page_size up to but excluding
\* (page-1)*page_size + page_size; a start at or beyond the window length gives
\* an empty page; the pages 1, 2, ... concatenated are the window, nothing
\* repeated, nothing skipped.
C19_PagesPartitionTheWindow ==
    hy_res # None =>
        /\ \A p \in 1..Len(hy_pages) :
              LET start == (p - 1) * hy_args.page_size
                  inside == {i \in 1..Len(PagedWindow) :
                                start < i /\ i <= start + hy_args.page_size}
              IN  /\ Len(hy_pages[p]) = Cardinality(inside)
                  /\ \A j \in 1..Len(hy_pages[p]) :
                        hy_pages[p][j] = PagedWindow[start + j]
                  /\ start >= Len(PagedWindow) => hy_pages[p] = <<>>
        /\ ConcatPages(hy_pages) = SubSeq(PagedWindow, 1, FetchedSoFar)

\* a reranked window of three entries fetched as a full page, a partial page
\* and an empty page
C19_Witness ==
    /\ Len(hy_pages) = 3
    /\ hy_args.rerank
    /\ hy_args.order = "reversed"
    /\ Len(PagedWindow) = 3
    /\ Len(hy_pages[1]) = 2
    /\ Len(hy_pages[2]) = 1
    /\ hy_pages[3] = <<>>
    /\ hy_pages[1][1] # hy_res[1].fused_results[1]

\* C20: the candidate window is the first top_k fused entries when top_k > 0
\* and the whole fused list when top_k <= 0, and pagination.total is the size
\* of the window whatever page, page_size and the rerank flag are.
C20_WindowIsFirstTopK ==
    hy_res # None =>
        /\ hy_res[1].pagination.total = ExpectedWindowSize
        /\ hy_args.debug =>
              hy_res[1].debug[1].candidates_before_rerank = ExpectedWindow
        /\ Len(ConcatPages(hy_pages)) <= ExpectedWindowSize
        /\ Len(hy_pages) * hy_args.page_size >= ExpectedWindowSize
              => ConcatPages(hy_pages) = PagedWindow

\* a fused list longer than top_k was cut to top_k entries, reranked, and page
\* two of it fetched
C20_Witness ==
    /\ hy_res # None
    /\ hy_args.top_k > 0
    /\ hy_args.top_k < Len(hy_res[1].fused_results)
    /\ hy_args.rerank
    /\ hy_args.debug
    /\ Len(hy_pages) >= 2
    /\ hy_res[1].pagination.total = hy_args.top_k
    /\ ConcatPages(hy_pages) = PagedWindow


-----------------------------------------------------------------------------
(* Properties of the reranker *)

\* C21: Reranker.rerank called with an empty candidate list returns an empty
\* list and passes nothing to the embedding provider, neither the query nor a
\* candidate; and HybridRetriever.search hands the reranker a candidate window
\* only when the rerank flag is set and the window is not empty.
C21_EmptyInputIsNeverEmbedded ==
    /\ (rk_out # None /\ rk_cands = <<>>) =>
            (rk_out = Some(<<>>) /\ rk_embeds = <<>>)
    /\ \A i \in 1..Len(hy_calls) : hy_args.rerank /\ hy_calls[i] # <<>>
    /\ (hy_res # None /\ hy_res[1].pagination.total = 0) => hy_calls = <<>>

C21_Witness ==
    /\ rk_out # None
    /\ rk_cands = <<>>
    /\ hy_res # None
    /\ hy_args.rerank
    /\ hy_res[1].pagination.total = 0
    /\ hy_calls = <<>>


\* every candidate has the same value in each of the four score series
UniformSeries(candidates) ==
    \A i, j \in 1..Len(candidates) :
        /\ CosineOf(candidates[i]) = CosineOf(candidates[j])
        /\ candidates[i].score_bm25 = candidates[j].score_bm25
        /\ candidates[i].score_vector = candidates[j].score_vector
        /\ candidates[i].rrf_score = candidates[j].rrf_score

\* C22: if within each of the four score series (cosine, bm25, vector, rrf)
\* every candidate has the same value, rerank gives every candidate the same
\* rerank_score and returns the candidates in their original order.
C22_UniformScoresKeepOrder ==
    (rk_out # None /\ UniformSeries(rk_cands)) =>
        /\ Len(rk_out[1]) = Len(rk_cands)
        /\ \A i, j \in 1..Len(rk_out[1]) :
                rk_out[1][i].rerank_score = rk_out[1][j].rerank_score
        /\ \A i \in 1..Len(rk_out[1]) : rk_out[1][i].c = rk_cands[i]

C22_Witness ==
    /\ rk_out # None
    /\ Len(rk_cands) >= 2
    /\ UniformSeries(rk_cands)
    /\ rk_cands[1] # rk_cands[2]
    /\ rk_cands[1].score_bm25 # None


\* the positions of nz_in that hold a value
NzIdx == {i \in 1..Len(nz_in) : nz_in[i] # None}

NzVals == {nz_in[i][1] : i \in NzIdx}

\* what holds of every result of _normalize: length, range, None gives 0.0
NzShape ==
    /\ Len(nz_out[1]) = Len(nz_in)
    /\ \A i \in 1..Len(nz_in) :
        /\ 0 <= nz_out[1][i] /\ nz_out[1][i] <= NormScale
        /\ nz_in[i] = None => nz_out[1][i] = 0

\* min-max: the least value gives 0.0, the greatest 1.0, no two values swap
NzSpread ==
    /\ \A i \in NzIdx :
        /\ nz_in[i][1] = SetMin(NzVals) => nz_out[1][i] = 0
        /\ nz_in[i][1] = SetMax(NzVals) => nz_out[1][i] = NormScale
    /\ \A i, j \in NzIdx :
        nz_in[i][1] <= nz_in[j][1] => nz_out[1][i] <= nz_out[1][j]

\* every value gives 0.5
NzMidpoint == \A i \in NzIdx : 2 * nz_out[1][i] = NormScale

\* C23: _normalize returns a series of the same length with values in [0, 1];
\* None gives 0.0; when the greatest and the least value differ by 1e-9 or
\* more, the least gives 0.0, the greatest 1.0 and the order of the values is
\* kept; when they differ by less than 1e-9, equal or not, every value
\* gives 0.5.
C23_NormalizeWithTolerance ==
    nz_out # None =>
        /\ NzShape
        /\ (NzVals # {} /\ SetMax(NzVals) - SetMin(NzVals) >= NormTol) => NzSpread
        /\ (NzVals # {} /\ SetMax(NzVals) - SetMin(NzVals) < NormTol) => NzMidpoint

C23_Witness ==
    /\ nz_out # None
    /\ Cardinality(NzVals) = 2
    /\ SetMax(NzVals) - SetMin(NzVals) < NormTol
    /\ \E i \in 1..Len(nz_in) : nz_in[i] = None

\* C23 as stated: min-max whenever the values are not all equal, 0.5 only when
\* they are all equal
C23_NormalizeExactEquality ==
    nz_out # None =>
        /\ NzShape
        /\ Cardinality(NzVals) > 1 => NzSpread
        /\ Cardinality(NzVals) = 1 => NzMidpoint


-----------------------------------------------------------------------------
(* Properties of TextChunker.chunk *)

ChunkReturned == ch_pc = "returned"

\* chunk_ids count up from 0, each chunk starts after the one before it, and
\* the empty text gives no chunk
ChunksWellFormed ==
    /\ \A k \in 1..Len(ch_chunks) : ch_chunks[k].chunk_id = k - 1
    /\ \A k \in 1..(Len(ch_chunks) - 1) : ch_chunks[k].start < ch_chunks[k + 1].start
    /\ (ChunkReturned /\ ch_text = <<>>) => ch_chunks = <<>>

\* C24: for every valid configuration (size > 0, 0 <= overlap < size, strategy
\* char or sentence) and every text, chunk() terminates, the chunk_ids are
\* consecutive from 0, the start offsets of successive chunks are strictly
\* increasing, and the empty text yields the empty list.
C24_ChunkingTerminates == []ChunksWellFormed /\ <>ChunkReturned

\* a sentence chunk no longer than the overlap was followed by another chunk
C24_Witness ==
    /\ ChunkReturned
    /\ ch_self.strategy = "sentence"
    /\ \E k \in 1..(Len(ch_chunks) - 1) :
        ch_chunks[k].end - ch_chunks[k].start <= ch_self.overlap


-----------------------------------------------------------------------------
(* Properties of rrf_fuse: raw scores and vector-first *)

\* the fused entry of identity key, once the list is returned
EntryOf(key) == fused_list[CHOOSE i \in 1..Len(fused_list) : fused_list[i].key = key]

HasEntry(key) == \E i \in 1..Len(fused_list) : fused_list[i].key = key

\* the raw score of the last hit of the list, of identity key, that has a
\* numeric one; None if there is no such hit
LastNumeric(results, source, key) ==
    IF \E r \in 1..Len(results) :
            BuildKey(results[r], source, r) = key /\ results[r].score.kind = "num"
    THEN results[SetMax({r \in 1..Len(results) :
                            /\ BuildKey(results[r], source, r) = key
                            /\ results[r].score.kind = "num"})].score
    ELSE NoScore

\* C25: a hit whose raw score is missing or not numeric is still fused: its
\* entry exists, names its source, has the sum of 1/(k + rank) over all hits of
\* its identity as rrf_score, and has as score_vector / score_bm25 what the
\* other hits of that source and identity set: the last numeric raw score
\* among them, null if there is none; never zero for the want of a score.
C25_UnusableScoreLeavesFieldUnset ==
    RrfReturned =>
        /\ \A r \in VecRanks :
            vector_results[r].score.kind # "num" =>
                /\ HasEntry(BuildKey(vector_results[r], "vector", r))
                /\ \E e \in {EntryOf(BuildKey(vector_results[r], "vector", r))} :
                    /\ e.score_vector = LastNumeric(vector_results, "vector", e.key)
                    /\ \E i \in 1..Len(e.sources) : e.sources[i] = "vector"
                    /\ e.rrf_score = ExpectedRrf(e.key)
        /\ \A r \in BmRanks :
            bm25_results[r].score.kind # "num" =>
                /\ HasEntry(BuildKey(bm25_results[r], "bm25", r))
                /\ \E e \in {EntryOf(BuildKey(bm25_results[r], "bm25", r))} :
                    /\ e.score_bm25 = LastNumeric(bm25_results, "bm25", e.key)
                    /\ \E i \in 1..Len(e.sources) : e.sources[i] = "bm25"
                    /\ e.rrf_score = ExpectedRrf(e.key)

\* a vector hit without a usable score came after one of the same identity with
\* a score, which is kept, and a lexical hit of that identity had no score
C25_Witness ==
    /\ RrfReturned
    /\ Len(vector_results) = 2
    /\ vector_results[1].score = NumScore(1)
    /\ vector_results[2].score = BadScore
    /\ vector_results[1].doc_id = vector_results[2].doc_id
    /\ Len(bm25_results) = 1
    /\ bm25_results[1].score = NoScore
    /\ Len(fused_list) = 1
    /\ fused_list[1].score_vector = NumScore(1)
    /\ fused_list[1].score_bm25 = NoScore
    /\ fused_list[1].rrf_score = Reciprocal(1) + Reciprocal(2) + Reciprocal(1)

\* the first vector hit and the first lexical hit of identity key
FirstOf(results, source, key) ==
    results[SetMin({r \in 1..Len(results) : BuildKey(results[r], source, r) = key})]

HitBy(results, source, key) ==
    \E r \in 1..Len(results) : BuildKey(results[r], source, r) = key

\* C26: when a vector hit and a lexical hit have the same identity key, the
\* fused entry's doc_id, chunk_id and text are those of the (first such) vector
\* hit, whatever the lexical hit carries, and sources is ["vector", "bm25"].
C26_VectorHitFillsTheEntry ==
    RrfReturned =>
        \A i \in 1..Len(fused_list) :
            (/\ HitBy(vector_results, "vector", fused_list[i].key)
             /\ HitBy(bm25_results, "bm25", fused_list[i].key)) =>
                \E v \in {FirstOf(vector_results, "vector", fused_list[i].key)} :
                    /\ fused_list[i].doc_id = v.doc_id
                    /\ fused_list[i].chunk_id = v.chunk_id
                    /\ fused_list[i].text = ExtractTextFromVectorHit(v)
                    /\ fused_list[i].sources = <<"vector", "bm25">>

\* the vector hit had neither doc_id nor text, the lexical hit of the same
\* identity had both
C26_Witness ==
    /\ RrfReturned
    /\ Len(vector_results) = 1
    /\ Len(bm25_results) = 1
    /\ vector_results[1].doc_id = NoneStr
    /\ vector_results[1].text = NoneStr
    /\ bm25_results[1].doc_id = <<>>
    /\ bm25_results[1].text = <<"t">>
    /\ Len(fused_list) = 1
    /\ fused_list[1].doc_id = NoneStr
    /\ fused_list[1].text = NoneStr


-----------------------------------------------------------------------------
(* Properties of the cache hit of query_endpoint *)

\* the cache lookup of the last request returned an entry: the request looked
\* its key up while Redis was reachable and held the key, not yet expired
LookupReturnedEntry ==
    /\ calls # None
    /\ calls[1].cache_get
    /\ calls[1].redis_up
    /\ RequestKey(req) \in DOMAIN cache_before[1].redis_data
    /\ ~(calls[1].at > cache_before[1].redis_data[RequestKey(req)].exp)

\* the payload that the lookup of the last request found
StoredEntry == JsonLoads(cache_before[1].redis_data[RequestKey(req)].val)

\* C27: when the cache lookup of a /query request returns an entry, the
\* response is that entry with cache_hit = true and the request's trace_id,
\* every other field as stored (degraded, degraded_mode, milvus_ok among them);
\* no vector search, lexical search or fusion (nor the rerank inside the hybrid
\* search) is invoked, and the cache is not written.
C27_CacheHitAnsweredFromEntry ==
    LookupReturnedEntry =>
        /\ resp = [StoredEntry EXCEPT !.trace_id = req.trace_id, !.cache_hit = TRUE]
        /\ resp.degraded = StoredEntry.degraded
        /\ resp.degraded_mode = StoredEntry.degraded_mode
        /\ resp.milvus_ok = StoredEntry.milvus_ok
        /\ calls[1].vector = "not_called"
        /\ calls[1].bm25_inner = "not_called"
        /\ calls[1].bm25_fallback = "not_called"
        /\ ~calls[1].fuse
        /\ ~calls[1].cache_set
        /\ written = None
        /\ cache_before = Some(CacheContents(TheCache))

\* the second request was answered from the entry that the first one stored
C27_Witness ==
    /\ LookupReturnedEntry
    /\ resp.status = "ok"
    /\ resp.cache_hit
    /\ req.trace_id = 2
    /\ StoredEntry.trace_id = 1
    /\ resp.results # <<>>


-----------------------------------------------------------------------------
(* Properties of the local store: consistency of its two maps *)

\* no call is inside a `with self._lock` block: the value map and the expiry
\* map have the same keys
MapsAgree == ~locked => DOMAIN store = DOMAIN expire

\* a get() that found its key expired and is about to return None has removed
\* the key from both maps
ExpiredWasRemoved ==
    \A t \in Threads :
        thr[t].pc = "return_none" =>
            thr[t].key \notin DOMAIN store /\ thr[t].key \notin DOMAIN expire

\* a get() about to return a value returns one whose expiry time had not
\* passed when it read the clock
ReturnedIsLive ==
    \A t \in Threads :
        (thr[t].pc = "return_value" /\ thr[t].key \in DOMAIN store) =>
            /\ thr[t].key \in DOMAIN expire
            /\ ~(thr[t].clock > expire[thr[t].key])

\* a key leaves a map only in a step of a get() of that key that found it expired
OnlyGetRemoves ==
    /\ \A k \in DOMAIN store :
        k \notin DOMAIN store' =>
            \E t \in Threads : /\ thr[t].pc = "pop_store"
                               /\ thr[t].key = k
                               /\ thr[t].seen # None
                               /\ thr'[t].pc = "pop_expire"
    /\ \A k \in DOMAIN expire :
        k \notin DOMAIN expire' =>
            \E t \in Threads : /\ thr[t].pc = "pop_expire"
                               /\ thr[t].key = k
                               /\ thr[t].seen # None
                               /\ thr'[t].pc = "return_none"

\* C28: under any interleaving of get() and set() calls on the local store, the
\* value map and the expiry map have the same keys whenever no call is inside
\* its locked block, a get() that finds its key expired removes it from both
\* maps, a key is removed only by such a get() of that key, and get() returns
\* no value whose expiry time had passed when it checked.
C28_LocalMapsStayConsistent ==
    /\ [](MapsAgree /\ ExpiredWasRemoved /\ ReturnedIsLive)
    /\ [][OnlyGetRemoves]_vars

\* a get() of k1 has removed the expired k1 while k2, as expired, stays in both
\* maps, and another thread waits to read k1
C28_Witness ==
    /\ \E t \in Threads : thr[t].pc = "return_none" /\ thr[t].key = "k1"
    /\ "k2" \in DOMAIN store
    /\ "k2" \in DOMAIN expire
    /\ now > expire["k2"]
    /\ "k1" \notin DOMAIN store


-----------------------------------------------------------------------------
(* Properties of BM25Retriever *)

\* C29: a BM25Retriever loads its corpus at most once: once a search() has
\* been made the initialized flag is set, no later search calls the document
\* store again, and if the first load failed or found no document every later
\* search() returns the empty list, whatever the document store holds by then.
C29_CorpusLoadedAtMostOnce ==
    /\ bm_searches >= 1 => bm_initialized
    /\ bm_loads <= 1
    /\ (bm_first \in {"failed", "empty"} /\ bm_searches >= 2) => bm_last = Returned(<<>>)


-----------------------------------------------------------------------------
(* Properties of /ingest *)

\* the marker of a chunk text as the /ingest call of time `at` wrote it
MarkerWritten(text, at) ==
    \/ /\ ChunkKey(text) \in DOMAIN redis_data
       /\ redis_data[ChunkKey(text)].exp = at + DedupTtl
    \/ /\ ChunkKey(text) \in DOMAIN store
       /\ ChunkKey(text) \in DOMAIN expire
       /\ expire[ChunkKey(text)] = at + DedupTtl

\* the latest real ingest left a marker for each chunk it took as new,
\* whether the worker returned or raised
MarkersOutliveTheIngest ==
    \A i \in 1..Len(ing_hist) :
        (i = Len(ing_hist) /\ ~ing_hist[i].dry_run)
            => \A k \in 1..Len(ing_hist[i].new) :
                   MarkerWritten(ing_hist[i].new[k], ing_hist[i].at)

\* call j repeats the text of call i, which failed at insertion, within
\* the lifetime of the markers call i wrote
ReingestWhileLive(i, j) ==
    /\ i < j
    /\ ~ing_hist[i].dry_run /\ ~ing_hist[j].dry_run
    /\ ing_hist[i].status = "insert raised"
    /\ ing_hist[j].texts = ing_hist[i].texts
    /\ ing_hist[j].at <= ing_hist[i].at + DedupTtl

\* call j took none of the chunks that were new to call i as new
TreatedAsDuplicates(i, j) ==
    \A k \in 1..Len(ing_hist[i].new), l \in 1..Len(ing_hist[j].new) :
        ing_hist[j].new[l] # ing_hist[i].new[k]

\* no row of call j holds a chunk that was new to call i
InsertedNone(i, j) ==
    \A row \in ing_rows :
        row.doc_id = j => \A k \in 1..Len(ing_hist[i].new) :
                              row.text # ing_hist[i].new[k]

\* the shared store answered the cache calls of call i, or the cache has been
\* on its local store since it was constructed
CacheAnswered(i) == use_redis => ing_hist[i].redis_up

=============================================================================
